---- MODULE Spec2Model ----
(***************************************************************************)
(* Totem: the coordinator (registry + command dispatch) and the per-pet    *)
(* state machine of src/totem/go/totem.go, src/totem/go/pet.go, the        *)
(* command parsers and DefaultPet (src/unnamed/part_005), EggPet           *)
(* (src/unnamed/part_011) and the relay hooks (src/unnamed/part_010).      *)
(*                                                                         *)
(* Numbers.  Energy and Happiness are float64 in [0,100]; they are kept    *)
(* here in tenths (0..1000), the smallest amount the code ever adds or     *)
(* subtracts being 0.1.  Time is kept in units of 100 seconds, so that the *)
(* decay 0.001 * seconds is a whole number of tenths.                      *)
(*                                                                         *)
(* Keys.  nostr.GeneratePrivateKey draws a random secret; the n-th secret  *)
(* drawn is the number n and its public key is PubKeys[n].                 *)
(*                                                                         *)
(* Goroutines.  Every stored or deleted message is handled in a goroutine  *)
(* of its own (go r.totem.handleStoreEvent); th[t] is the goroutine in     *)
(* slot t, with its program counter and its locals.  A step is one access  *)
(* to shared state (a critical section of a lock, or an unlocked read).    *)
(***************************************************************************)
EXTENDS Integers, Sequences, FiniteSets, TLC

\* ------------------------------------------------------------------ bounds
MaxEvents == 3
MaxThreads == 2
MaxNow == 1000
MaxKeys == 3

\* ------------------------------------------------------- program constants
KindPetCommand == 5910
KindProfileMetadata == 0
KindPetStatus == 30078
TagCommand == "c"
TagExecuteTool == "execute-tool"
CmdCreateEgg == "create_egg"
CmdNamePet == "name_pet"

FullScale == 1000
FeedEnergy == 50
FeedHappiness == 20
DeleteEnergy == 20
DeleteThreshold == 500
QueryCost == 1
TiredThreshold == 300
TiredLimit == 10
GrumpyThreshold == 500
LongMessage == 250

\* ------------------------------------------------------------ small sets
Threads == 1..MaxThreads
Owners == {"ownerA", "ownerB"}
\* The kind of an ordinary text note.
NoteKind == CHOOSE k \in {1} : TRUE
PubKeys == <<"pk1", "pk2", "pk3", "pk4", "pk5", "pk6", "pk7", "pk8", "pk9", "pk10", "pk11", "pk12">>
GetPublicKey(priv) == PubKeys[priv]
Durations == {400}

max(a, b) == IF a >= b THEN a ELSE b
min(a, b) == IF a <= b THEN a ELSE b

VARIABLES pets, mutex, th, nextKey, now, tasks, nEvents, crashed, namePetLog, verdict,
          publishEventHook, status, locks
vars == <<pets, mutex, th, nextKey, now, tasks, nEvents, crashed, namePetLog, verdict,
          publishEventHook, status, locks>>

\* ------------------------------------------------------ messages and JSON
\* A JSON value read into a Go string field: a missing member or null leaves
\* the zero value "", a string sets it, any other type is an
\* UnmarshalTypeError.
Absent == [t |-> "absent", s |-> ""]
Null == [t |-> "null", s |-> ""]
Str(s) == [t |-> "string", s |-> s]
Num == [t |-> "number", s |-> ""]
DecodeString(leaf) ==
    CASE leaf.t = "string" -> [err |-> FALSE, v |-> leaf.s]
      [] leaf.t \in {"absent", "null"} -> [err |-> FALSE, v |-> ""]
      [] OTHER -> [err |-> TRUE, v |-> ""]

\* The "parameters" member as json.RawMessage: absent (no bytes), null, a
\* JSON object with the members name and pet_id, or a JSON string.
NoParams(t) == [t |-> t, name |-> Absent, pet_id |-> Absent]
ObjParams(n, id) == [t |-> "object", name |-> n, pet_id |-> id]

\* evt.Content: text that is not JSON (of len bytes), or a JSON object.
Text(len) ==
    [valid |-> FALSE, name |-> Absent, parameters |-> NoParams("absent"), len |-> len]
NotJSON == Text(12)
Cmd(name, params) == [valid |-> TRUE, name |-> name, parameters |-> params]

NamePetParams(id, name) == [PetID |-> id, Name |-> name]
NoNamePetParams == NamePetParams("", "")

\* ValidateCommandTag that looks at the tag name only.
ValidateCommandTagNameOnly(tags) ==
    \E i \in 1..Len(tags) : Len(tags[i]) >= 1 /\ tags[i][1] = TagCommand

\* commands.go
ValidateCommandTag(tags) ==
    \E i \in 1..Len(tags) :
        /\ Len(tags[i]) >= 2
        /\ tags[i][1] = TagCommand
        /\ tags[i][2] = TagExecuteTool

ParseCommand(content) ==
    IF ~content.valid
    THEN [err |-> TRUE, Name |-> "", Parameters |-> NoParams("absent")]
    ELSE LET n == DecodeString(content.name)
         IN [err |-> n.err, Name |-> n.v, Parameters |-> content.parameters]

\* TRUE when an error is returned.
ParseCreateEggParams(rawParams) ==
    IF rawParams.t = "absent" THEN FALSE
    ELSE rawParams.t \notin {"object", "null"}

\* ParseNamePetParams without the check that the name is not empty.
ParseNamePetParamsAnyName(rawParams) ==
    IF rawParams.t \notin {"object", "null"}
    THEN [err |-> TRUE, params |-> NoNamePetParams]
    ELSE LET id == DecodeString(rawParams.pet_id)
             n == DecodeString(rawParams.name)
         IN IF id.err \/ n.err THEN [err |-> TRUE, params |-> NoNamePetParams]
            ELSE [err |-> FALSE, params |-> NamePetParams(id.v, n.v)]

ParseNamePetParams(rawParams) ==
    IF rawParams.t \notin {"object", "null"}
    THEN [err |-> TRUE, params |-> NoNamePetParams]
    ELSE LET id == DecodeString(rawParams.pet_id)
             n == DecodeString(rawParams.name)
         IN IF id.err \/ n.err THEN [err |-> TRUE, params |-> NoNamePetParams]
            ELSE IF n.v = "" THEN [err |-> TRUE, params |-> NoNamePetParams]
            ELSE [err |-> FALSE, params |-> NamePetParams(id.v, n.v)]

\* ------------------------------------------------------------------- pets
\* One record for both variants: an EggPet embeds a BasePet (whose own
\* ownerPubKey stays "") and adds ownerPubKey and createdAt of its own.
NewBasePet(name, priv, clock) ==
    [variant |-> "BasePet", Name |-> name, Happiness |-> FullScale,
     Energy |-> FullScale, LastFed |-> clock, privateKey |-> priv,
     publicKey |-> GetPublicKey(priv), ownerPubKey |-> "",
     eggOwnerPubKey |-> "", createdAt |-> 0]

NewEggPet(ownerPubKey, priv, clock) ==
    [NewBasePet("Egg", priv, clock) EXCEPT
        !.variant = "EggPet", !.eggOwnerPubKey = ownerPubKey, !.createdAt = clock]

\* NewDefaultPet: a pet that was never an egg.
NewDefaultPet(name, priv, clock) ==
    [NewBasePet(name, priv, clock) EXCEPT !.variant = "DefaultPet"]

\* pet.(PetCreator): only EggPet has HandleNaming and GetCreationTime.
IsPetCreator(p) == p.variant = "EggPet"

GetOwnerPubKey(p) == IF p.variant = "EggPet" THEN p.eggOwnerPubKey ELSE p.ownerPubKey

\* HandleNaming that leaves the new BasePet its own key pair.
HandleNamingFreshKeys(p, name, priv, clock) ==
    [NewBasePet(name, priv, clock) EXCEPT
        !.variant = "DefaultPet",
        !.ownerPubKey = p.eggOwnerPubKey,
        !.Happiness = p.Happiness,
        !.Energy = p.Energy,
        !.LastFed = p.LastFed]

\* HandleNaming that builds the BasePet under the egg's name.
HandleNamingKeepsName(p, name, priv, clock) ==
    [NewBasePet(p.Name, priv, clock) EXCEPT
        !.variant = "DefaultPet",
        !.ownerPubKey = p.eggOwnerPubKey,
        !.privateKey = p.privateKey,
        !.publicKey = p.publicKey,
        !.Happiness = p.Happiness,
        !.Energy = p.Energy,
        !.LastFed = p.LastFed]

\* HandleNaming that leaves the new pet the LastFed NewBasePet gave it.
HandleNamingFreshClock(p, name, priv, clock) ==
    [NewBasePet(name, priv, clock) EXCEPT
        !.variant = "DefaultPet",
        !.ownerPubKey = p.eggOwnerPubKey,
        !.privateKey = p.privateKey,
        !.publicKey = p.publicKey,
        !.Happiness = p.Happiness,
        !.Energy = p.Energy]

\* HandleNaming that leaves the new BasePet without the egg's owner.
HandleNamingDropsOwner(p, name, priv, clock) ==
    [NewBasePet(name, priv, clock) EXCEPT
        !.variant = "DefaultPet",
        !.privateKey = p.privateKey,
        !.publicKey = p.publicKey,
        !.Happiness = p.Happiness,
        !.Energy = p.Energy,
        !.LastFed = p.LastFed]

\* EggPet.HandleNaming: a new BasePet (which draws a key pair of its own),
\* then the egg's owner, keys and state are copied over it.
HandleNaming(p, name, priv, clock) ==
    [NewBasePet(name, priv, clock) EXCEPT
        !.variant = "DefaultPet",
        !.ownerPubKey = p.eggOwnerPubKey,
        !.privateKey = p.privateKey,
        !.publicKey = p.publicKey,
        !.Happiness = p.Happiness,
        !.Energy = p.Energy,
        !.LastFed = p.LastFed]

\* Update without the clamps.
UpdateUnclamped(p, clock) ==
    IF p.variant = "EggPet" THEN p
    ELSE LET timeSinceLastFed == clock - p.LastFed
             e == p.Energy - timeSinceLastFed
         IN [p EXCEPT !.Energy = e,
                      !.Happiness = IF e < TiredThreshold
                                    THEN @ - 2 * timeSinceLastFed
                                    ELSE @]

\* Update that lets an egg decay like a pet.
UpdateDecaysEggs(p, clock) ==
    LET timeSinceLastFed == clock - p.LastFed
        e == max(0, min(FullScale, p.Energy - timeSinceLastFed))
    IN [p EXCEPT !.Energy = e,
                 !.Happiness = IF e < TiredThreshold
                               THEN max(0, min(FullScale, @ - 2 * timeSinceLastFed))
                               ELSE @]

\* Update that looks at the energy before the step to decide on happiness.
UpdateTiredBefore(p, clock) ==
    IF p.variant = "EggPet" THEN p
    ELSE LET timeSinceLastFed == clock - p.LastFed
             e == max(0, min(FullScale, p.Energy - timeSinceLastFed))
         IN [p EXCEPT !.Energy = e,
                      !.Happiness = IF p.Energy < TiredThreshold
                                    THEN max(0, min(FullScale, @ - 2 * timeSinceLastFed))
                                    ELSE @]

\* BasePet.Update; EggPet.Update does nothing.
Update(p, clock) ==
    IF p.variant = "EggPet" THEN p
    ELSE LET timeSinceLastFed == clock - p.LastFed
             e == max(0, min(FullScale, p.Energy - timeSinceLastFed))
         IN [p EXCEPT !.Energy = e,
                      !.Happiness = IF e < TiredThreshold
                                    THEN max(0, min(FullScale, @ - 2 * timeSinceLastFed))
                                    ELSE @]

\* handleStoreEvent that forgets to note the time of the feeding.
pet_handleStoreEventNoClock(p, clock) ==
    IF p.variant = "EggPet" THEN p
    ELSE [p EXCEPT !.Energy = min(FullScale, @ + FeedEnergy),
                   !.Happiness = min(FullScale, @ + FeedHappiness)]

\* DefaultPet.handleStoreEvent; EggPet.handleStoreEvent only logs.
pet_handleStoreEvent(p, clock) ==
    IF p.variant = "EggPet" THEN p
    ELSE [p EXCEPT !.Energy = min(FullScale, @ + FeedEnergy),
                   !.Happiness = min(FullScale, @ + FeedHappiness),
                   !.LastFed = clock]

\* DefaultPet.handleDeleteEvent, the write made when the snapshot was < 50.
pet_handleDeleteEvent(p) ==
    IF p.variant = "EggPet" THEN p
    ELSE [p EXCEPT !.Energy = min(FullScale, @ + DeleteEnergy)]

\* A limit imposed on every query with no limit, tired pet or not.
pet_queryLimitAlways(p, limit) ==
    IF p.variant # "EggPet" /\ limit = 0
    THEN TiredLimit ELSE limit

\* DefaultPet.handleQueryEvents: the limit it returns, and its state after.
pet_queryLimit(p, limit) ==
    IF p.variant # "EggPet" /\ p.Energy < TiredThreshold /\ limit = 0
    THEN TiredLimit ELSE limit
pet_handleQueryEvents(p) ==
    IF p.variant = "EggPet" THEN p
    ELSE [p EXCEPT !.Energy = max(0, @ - QueryCost)]
\* The filter a pet hands back: only the ceiling can differ.
pet_handleQueryFilter(p, filter) == [filter EXCEPT !.Limit = pet_queryLimit(p, @)]
\* A shaping that asks one entity only.
totem_handleQueryEventsFirstOnly(reg, keys, filter) ==
    IF keys = {} THEN filter
    ELSE pet_handleQueryFilter(reg[CHOOSE x \in keys : TRUE], filter)

\* Totem.handleQueryEvents: the filter goes through every pet in turn.
RECURSIVE totem_handleQueryEvents(_, _, _)
totem_handleQueryEvents(reg, keys, filter) ==
    IF keys = {} THEN filter
    ELSE LET k == CHOOSE x \in keys : TRUE
         IN totem_handleQueryEvents(reg, keys \ {k}, pet_handleQueryFilter(reg[k], filter))

\* handleRejectEvent with both comparisons inclusive.
pet_handleRejectEventInclusive(p, evt) ==
    IF p.variant = "EggPet" THEN [reject |-> FALSE, msg |-> ""]
    ELSE IF p.Happiness <= GrumpyThreshold /\ evt.Content.len >= LongMessage
    THEN [reject |-> TRUE,
          msg |-> "Pet " \o p.Name \o " is grumpy and doesn't like long messages"]
    ELSE [reject |-> FALSE, msg |-> ""]

\* DefaultPet.handleRejectEvent; EggPet.handleRejectEvent never rejects.
pet_handleRejectEvent(p, evt) ==
    IF p.variant = "EggPet" THEN [reject |-> FALSE, msg |-> ""]
    ELSE IF p.Happiness < GrumpyThreshold /\ evt.Content.len > LongMessage
    THEN [reject |-> TRUE,
          msg |-> "Pet " \o p.Name \o " is grumpy and doesn't like long messages"]
    ELSE [reject |-> FALSE, msg |-> ""]

\* GetStateEmoji that looks at the happiness before the energy.
GetStateEmojiHappinessFirst(p) ==
    IF p.variant = "EggPet" THEN "egg"
    ELSE IF p.Happiness < 300 THEN "sad"
    ELSE IF p.Happiness < 500 THEN "neutral"
    ELSE IF p.Energy < 300 THEN "exhausted"
    ELSE IF p.Energy < 500 THEN "hungry"
    ELSE IF p.Happiness >= 800 /\ p.Energy >= 800 THEN "delighted"
    ELSE "content"

\* BasePet.GetStateEmoji (the first case of the switch that holds, in the
\* order of the source) / EggPet.GetStateEmoji
GetStateEmoji(p) ==
    IF p.variant = "EggPet" THEN "egg"
    ELSE IF p.Energy < 300 THEN "exhausted"
    ELSE IF p.Energy < 500 THEN "hungry"
    ELSE IF p.Happiness < 300 THEN "sad"
    ELSE IF p.Happiness < 500 THEN "neutral"
    ELSE IF p.Happiness >= 800 /\ p.Energy >= 800 THEN "delighted"
    ELSE "content"

\* --------------------------------------------------------------- registry
\* t.pets[key] = p (a Go map assignment: insert or overwrite)
MapPut(reg, key, p) ==
    [k \in (DOMAIN reg) \cup {key} |-> IF k = key THEN p ELSE reg[k]]

\* Totem.RegisterPet, the critical section.
RegisterPet(reg, p) == MapPut(reg, p.Name, p)

\* CreatePet that stores the egg under a key made from the owner.
CreatePetKeyedByOwner(reg, ownerPubKey, priv, clock) ==
    MapPut(reg, ownerPubKey, NewEggPet(ownerPubKey, priv, clock))

\* Totem.CreatePet, the critical section.
CreatePet(reg, ownerPubKey, priv, clock) ==
    LET egg == NewEggPet(ownerPubKey, priv, clock)
    IN MapPut(reg, egg.publicKey, egg)

\* NamePet as it once was: the egg's entry is deleted and the pet is stored
\* under its name.
NamePetRekeyed(reg, pubKey, name, priv, clock) ==
    IF pubKey \notin DOMAIN reg
    THEN [err |-> "not found", pets |-> reg, namedPet |-> <<>>]
    ELSE IF ~IsPetCreator(reg[pubKey])
    THEN [err |-> "not in egg state", pets |-> reg, namedPet |-> <<>>]
    ELSE LET namedPet == HandleNaming(reg[pubKey], name, priv, clock)
         IN [err |-> "",
             pets |-> MapPut([k \in (DOMAIN reg) \ {pubKey} |-> reg[k]], name, namedPet),
             namedPet |-> <<namedPet>>]

\* NamePet without the check that the entry is still an egg.
NamePetAgain(reg, pubKey, name, priv, clock) ==
    IF pubKey \notin DOMAIN reg
    THEN [err |-> "not found", pets |-> reg, namedPet |-> <<>>]
    ELSE LET namedPet == HandleNaming(reg[pubKey], name, priv, clock)
         IN [err |-> "", pets |-> MapPut(reg, pubKey, namedPet), namedPet |-> <<namedPet>>]

\* NamePet without the check that the egg has an owner.
NamePetNoOwnerCheck(reg, pubKey, name, priv, clock) ==
    IF pubKey \notin DOMAIN reg
    THEN [err |-> "not found", pets |-> reg, namedPet |-> <<>>]
    ELSE IF ~IsPetCreator(reg[pubKey])
    THEN [err |-> "not in egg state", pets |-> reg, namedPet |-> <<>>]
    ELSE LET namedPet == HandleNaming(reg[pubKey], name, priv, clock)
         IN [err |-> "", pets |-> MapPut(reg, pubKey, namedPet), namedPet |-> <<namedPet>>]

\* Totem.NamePet, the critical section: the error returned ("" for nil), the
\* registry afterwards and the pet returned (<<>> for nil).
NamePet(reg, pubKey, name, priv, clock) ==
    IF pubKey \notin DOMAIN reg
    THEN [err |-> "not found", pets |-> reg, namedPet |-> <<>>]
    ELSE IF ~IsPetCreator(reg[pubKey])
    THEN [err |-> "not in egg state", pets |-> reg, namedPet |-> <<>>]
    ELSE IF GetOwnerPubKey(reg[pubKey]) = ""
    THEN [err |-> "has no owner", pets |-> reg, namedPet |-> <<>>]
    ELSE LET namedPet == HandleNaming(reg[pubKey], name, priv, clock)
         IN [err |-> "", pets |-> MapPut(reg, pubKey, namedPet), namedPet |-> <<namedPet>>]

\* FindEggsByOwner without the comparison of the owner.
FindEggsOfAnyOwner(reg, ownerPubKey) ==
    {k \in DOMAIN reg : IsPetCreator(reg[k])}

\* Totem.FindEggsByOwner: the eggs of an owner (in map order, so that eggs[0]
\* is any of them).
FindEggsByOwner(reg, ownerPubKey) ==
    {k \in DOMAIN reg : IsPetCreator(reg[k]) /\ GetOwnerPubKey(reg[k]) = ownerPubKey}

\* Totem.findTargetPet: the keys it may return ({} for nil); map iteration
\* order makes rules 2 to 4 a choice.
TaggedPets(reg, tags) ==
    {i \in 1..Len(tags) :
        Len(tags[i]) >= 2 /\ tags[i][1] = "p" /\ tags[i][2] \in DOMAIN reg}
\* findTargetPet whose fallback does not skip the eggs.
FindTargetPetAnyFallback(reg, evt) ==
    LET tagged == TaggedPets(reg, evt.Tags)
        owned == {k \in DOMAIN reg : GetOwnerPubKey(reg[k]) = evt.PubKey}
    IN IF tagged # {}
       THEN {evt.Tags[CHOOSE i \in tagged : \A j \in tagged : i <= j][2]}
       ELSE IF owned # {} THEN owned
       ELSE DOMAIN reg

FindTargetPet(reg, evt) ==
    LET tagged == TaggedPets(reg, evt.Tags)
        owned == {k \in DOMAIN reg : GetOwnerPubKey(reg[k]) = evt.PubKey}
        nonEggs == {k \in DOMAIN reg : ~IsPetCreator(reg[k])}
    IN IF tagged # {}
       THEN {evt.Tags[CHOOSE i \in tagged : \A j \in tagged : i <= j][2]}
       ELSE IF owned # {} THEN owned
       ELSE IF nonEggs # {} THEN nonEggs
       ELSE DOMAIN reg

\* The lookup by pet_id without the security check.
TargetEggByIDUnchecked(reg, petID, senderPubKey) ==
    IF petID \notin DOMAIN reg THEN ""
    ELSE IF ~IsPetCreator(reg[petID]) THEN ""
    ELSE reg[petID].publicKey

\* handleNamePetCommand with a pet_id: the egg that is to be named, "" when
\* the handler gives up (not found, not an egg, not the sender's egg).
TargetEggByID(reg, petID, senderPubKey) ==
    IF petID \notin DOMAIN reg THEN ""
    ELSE IF ~IsPetCreator(reg[petID]) THEN ""
    ELSE IF GetOwnerPubKey(reg[petID]) # senderPubKey THEN ""
    ELSE reg[petID].publicKey

\* Totem.processTotemCommand and the two command handlers up to their first
\* access to the registry: where the goroutine goes next.  "findTargetPet"
\* is the return of false (handleStoreEvent goes on to feeding).
\* handleCreateEggCommand that returns false after a good parse as well.
handleCreateEggCommandFalse(evt, rawParams) ==
    [pc |-> "findTargetPet", params |-> NoNamePetParams]

handleCreateEggCommand(evt, rawParams) ==
    IF ParseCreateEggParams(rawParams)
    THEN [pc |-> "findTargetPet", params |-> NoNamePetParams]
    ELSE [pc |-> "CreatePet", params |-> NoNamePetParams]

\* handleNamePetCommand that returns true (handled) when the parameters do
\* not parse.
handleNamePetCommandHandled(evt, rawParams) ==
    LET r == ParseNamePetParams(rawParams)
    IN IF r.err THEN [pc |-> "idle", params |-> NoNamePetParams]
       ELSE IF r.params.PetID # "" THEN [pc |-> "lookup", params |-> r.params]
       ELSE [pc |-> "FindEggsByOwner", params |-> r.params]

handleNamePetCommand(evt, rawParams) ==
    LET r == ParseNamePetParams(rawParams)
    IN IF r.err THEN [pc |-> "findTargetPet", params |-> NoNamePetParams]
       ELSE IF r.params.PetID # "" THEN [pc |-> "lookup", params |-> r.params]
       ELSE [pc |-> "FindEggsByOwner", params |-> r.params]

\* processTotemCommand that returns true (handled) for an unknown command.
processTotemCommandUnknownHandled(evt) ==
    IF evt.Kind # KindPetCommand
    THEN [pc |-> "findTargetPet", params |-> NoNamePetParams]
    ELSE IF ~ValidateCommandTag(evt.Tags)
    THEN [pc |-> "findTargetPet", params |-> NoNamePetParams]
    ELSE LET cmd == ParseCommand(evt.Content)
         IN IF cmd.err THEN [pc |-> "findTargetPet", params |-> NoNamePetParams]
            ELSE IF cmd.Name = CmdCreateEgg THEN handleCreateEggCommand(evt, cmd.Parameters)
            ELSE IF cmd.Name = CmdNamePet THEN handleNamePetCommand(evt, cmd.Parameters)
            ELSE [pc |-> "idle", params |-> NoNamePetParams]

\* processTotemCommand that returns true (handled) when the content is not
\* JSON.
processTotemCommandStrict(evt) ==
    IF evt.Kind # KindPetCommand
    THEN [pc |-> "findTargetPet", params |-> NoNamePetParams]
    ELSE IF ~ValidateCommandTag(evt.Tags)
    THEN [pc |-> "findTargetPet", params |-> NoNamePetParams]
    ELSE LET cmd == ParseCommand(evt.Content)
         IN IF cmd.err THEN [pc |-> "idle", params |-> NoNamePetParams]
            ELSE IF cmd.Name = CmdCreateEgg THEN handleCreateEggCommand(evt, cmd.Parameters)
            ELSE IF cmd.Name = CmdNamePet THEN handleNamePetCommand(evt, cmd.Parameters)
            ELSE [pc |-> "findTargetPet", params |-> NoNamePetParams]

processTotemCommand(evt) ==
    IF evt.Kind # KindPetCommand
    THEN [pc |-> "findTargetPet", params |-> NoNamePetParams]
    ELSE IF ~ValidateCommandTag(evt.Tags)
    THEN [pc |-> "findTargetPet", params |-> NoNamePetParams]
    ELSE LET cmd == ParseCommand(evt.Content)
         IN IF cmd.err THEN [pc |-> "findTargetPet", params |-> NoNamePetParams]
            ELSE IF cmd.Name = CmdCreateEgg THEN handleCreateEggCommand(evt, cmd.Parameters)
            ELSE IF cmd.Name = CmdNamePet THEN handleNamePetCommand(evt, cmd.Parameters)
            ELSE [pc |-> "findTargetPet", params |-> NoNamePetParams]

\* ---------------------------------------------------------------- inputs
CommandTags == << <<TagCommand, TagExecuteTool>> >>
PetIDs == {"pk1", "pk2"}
PetNames == {"Rex", "Bo"}

Event(pubKey, kind, tags, content) ==
    [PubKey |-> pubKey, Kind |-> kind, Tags |-> tags, Content |-> content]

\* create_egg with each shape of the parameters member.
CreateEggContents ==
    {Cmd(Str(CmdCreateEgg), p) :
        p \in {NoParams("absent"), NoParams("null"), ObjParams(Absent, Absent),
               NoParams("string")}}
\* name_pet with parameters that decode ...
NamePetContents ==
    {Cmd(Str(CmdNamePet), ObjParams(Str(n), Absent)) : n \in PetNames}
    \cup {Cmd(Str(CmdNamePet), ObjParams(Str("Rex"), Str(id))) : id \in PetIDs}
\* ... and with parameters that do not: no name, an empty name, a pet_id
\* that is not a string, no parameters.
BadNamePetContents ==
    {Cmd(Str(CmdNamePet), ObjParams(Absent, Absent)),
     Cmd(Str(CmdNamePet), ObjParams(Str(""), Str("pk1"))),
     Cmd(Str(CmdNamePet), ObjParams(Str("Rex"), Num)),
     Cmd(Str(CmdNamePet), NoParams("absent"))}
OtherContents == {NotJSON, Cmd(Str("feed_pet"), ObjParams(Absent, Absent))}

\* Messages that pass the recognition gate.
GatedEvents ==
    {Event(a, KindPetCommand, CommandTags, c) :
        a \in Owners, c \in CreateEggContents \cup NamePetContents}
    \cup {Event("ownerA", KindPetCommand, CommandTags, c) :
            c \in BadNamePetContents \cup OtherContents}
\* Messages with a command as content that fail the kind or the tag check.
UngatedCommandEvents ==
    {Event("ownerA", kt[1], kt[2], Cmd(Str(CmdCreateEgg), ObjParams(Absent, Absent))) :
        kt \in {<<NoteKind, CommandTags>>, <<KindPetCommand, <<>> >>,
                <<KindPetCommand, << <<TagCommand>> >> >>,
                <<KindPetCommand, << <<TagCommand, "other">> >> >>}}
    \cup {Event("ownerA", NoteKind, CommandTags,
                Cmd(Str(CmdNamePet), ObjParams(Str("Rex"), Absent)))}
\* Ordinary notes, with and without "p" tags.
NoteEvents ==
    {Event(a, NoteKind, tags, NotJSON) :
        a \in Owners,
        tags \in {<<>>, << <<"p", "pk1">> >>, << <<"p", "nokey">>, <<"p", "pk2">> >>,
                  << <<"p">> >>}}
StoreEvents == GatedEvents \cup UngatedCommandEvents \cup NoteEvents
DeleteEvents ==
    {Event(a, NoteKind, <<>>, NotJSON) : a \in Owners}
    \cup {Event("ownerB", NoteKind, << <<"p", "pk1">> >>, NotJSON)}

\* The profile message an egg or a pet publishes about itself
\* (publishMetadataEvent), as it comes back through the publish hook.
MetadataEvent(task) ==
    Event(task.publicKey, KindProfileMetadata, << <<"p", task.ownerPubKey>> >>,
          Cmd(Str(task.Name), NoParams("absent")))

\* A query filter: its result-count ceiling and one of its other fields.
Filter(limit, kinds) == [Limit |-> limit, Kinds |-> kinds]
Filters == {Filter(l, k) : l \in {0, 5}, k \in {<<>>, <<NoteKind>>}}

\* ------------------------------------------------------------- goroutines
Idle ==
    [pc |-> "idle", hook |-> "", evt |-> Event("", 0, <<>>, NotJSON),
     params |-> NoNamePetParams, target |-> "", targetIsEgg |-> FALSE]

\* StartPetStatusUpdates has not been called: no status loop runs.
StatusOff ==
    [pc |-> "off", snap |-> {}, todo |-> {}, attempts |-> <<>>, failed |-> {},
     held |-> <<>>]
\* Nobody holds or waits for the registry lock or an entity lock.
NoLocks == [reg |-> [readers |-> {}, writer |-> 0, waiting |-> {}],
            pet |-> [readers |-> {}, writer |-> 0, waiting |-> {}],
            script |-> [t \in Threads |-> <<>>]]

\* What the last synchronous call returned: nothing yet.
NoVerdict ==
    [op |-> "", evt |-> Event("", 0, <<>>, NotJSON), target |-> "", reject |-> FALSE,
     msg |-> "", filter |-> Filter(0, <<>>)]

Init ==
    /\ pets = <<>>
    /\ mutex = 0
    /\ th = [t \in Threads |-> Idle]
    /\ nextKey = 0
    /\ now = 0
    /\ tasks = {}
    /\ nEvents = 0
    /\ crashed = FALSE
    /\ namePetLog = <<>>
    /\ verdict = NoVerdict
    /\ publishEventHook = TRUE
    /\ status = StatusOff
    /\ locks = NoLocks

Return(t) == [th EXCEPT ![t] = Idle]
\* A new goroutine takes the first free slot.
Free(t) == th[t].pc = "idle" /\ \A u \in Threads : u < t => th[u].pc # "idle"
Goto(t, label) == [th EXCEPT ![t].pc = label]
MetadataTask(p) ==
    [publicKey |-> p.publicKey, ownerPubKey |-> GetOwnerPubKey(p), Name |-> p.Name,
     egg |-> IsPetCreator(p)]

\* Totem.handleStoreEvent starts in a goroutine of its own for the message.
Start(t, hook, evt) ==
    LET d == IF hook = "store" THEN processTotemCommand(evt)
             ELSE [pc |-> "findTargetPet", params |-> NoNamePetParams]
    IN [th EXCEPT ![t] = [Idle EXCEPT !.pc = d.pc, !.hook = hook, !.evt = evt,
                                      !.params = d.params]]

\* The totem told of a message whatever the database said.
NotifyAlways(t, hook, evt, ok) == Start(t, hook, evt)

\* "go r.totem.handleStoreEvent(ctx, evt)" (or handleDeleteEvent) comes after
\* the early return on the database's error.
Notify(t, hook, evt, ok) == IF ok THEN Start(t, hook, evt) ELSE th

\* What a relay hook returned: nil, or the error of the database.
HookReturned(hook, ok) ==
    [NoVerdict EXCEPT !.op = hook, !.msg = IF ok THEN "" ELSE "database error"]

\* TotemRelay.handleStoreEvent: the relay saved a message in its database,
\* or failed to and returns the error.
HandleStoreEvent(t, evt, saved) ==
    /\ ~crashed
    /\ nEvents < MaxEvents
    /\ IF saved
       THEN Free(t)
       ELSE t = 1
    /\ th' = Notify(t, "store", evt, saved)
    /\ nEvents' = nEvents + 1
    /\ verdict' = HookReturned("handleStoreEvent", saved)
    /\ UNCHANGED <<pets, mutex, nextKey, now, tasks, crashed, namePetLog,
                   publishEventHook, status, locks>>

\* TotemRelay.handleDeleteEvent: the relay deleted a message from its
\* database, or failed to and returns the error.
HandleDeleteEvent(t, evt, deleted) ==
    /\ ~crashed
    /\ nEvents < MaxEvents
    /\ IF deleted
       THEN Free(t)
       ELSE t = 1
    /\ th' = Notify(t, "delete", evt, deleted)
    /\ nEvents' = nEvents + 1
    /\ verdict' = HookReturned("handleDeleteEvent", deleted)
    /\ UNCHANGED <<pets, mutex, nextKey, now, tasks, crashed, namePetLog,
                   publishEventHook, status, locks>>

\* The goroutine started by NewEggPet or HandleNaming: publishMetadataEvent,
\* Totem.PublishEvent, and through the hook TotemRelay.handleStoreEvent,
\* which saves the message (or fails to) and hands it to the totem.
PublishMetadata(t, task, saved) ==
    /\ ~crashed
    /\ task \in tasks
    /\ nEvents < MaxEvents
    /\ saved => publishEventHook
    /\ nEvents' = nEvents + 1
    /\ tasks' = tasks \ {task}
    /\ IF saved
       THEN /\ Free(t)
            /\ th' = Start(t, "store", MetadataEvent(task))
       ELSE /\ t = 1
            /\ th' = th
    /\ UNCHANGED <<pets, mutex, nextKey, now, crashed, namePetLog, verdict,
                   publishEventHook, status, locks>>

\* t.mutex.Lock() of CreatePet and of NamePet
Lock(t) ==
    /\ ~crashed
    /\ th[t].pc \in {"CreatePet", "NamePet"}
    /\ mutex = 0
    /\ mutex' = t
    /\ th' = Goto(t, IF th[t].pc = "CreatePet" THEN "CreatePet_locked" ELSE "NamePet_locked")
    /\ UNCHANGED <<pets, nextKey, now, tasks, nEvents, crashed, namePetLog, verdict,
                   publishEventHook, status, locks>>

\* handleCreateEggCommand: CreatePet under the lock, then return true.
CreatePetLocked(t) ==
    /\ ~crashed
    /\ th[t].pc = "CreatePet_locked"
    /\ mutex = t
    /\ pets' = CreatePet(pets, th[t].evt.PubKey, nextKey + 1, now)
    /\ nextKey' = nextKey + 1
    /\ tasks' = tasks \cup {MetadataTask(NewEggPet(th[t].evt.PubKey, nextKey + 1, now))}
    /\ mutex' = 0
    /\ th' = Return(t)
    /\ UNCHANGED <<now, nEvents, crashed, namePetLog, verdict,
                   publishEventHook, status, locks>>

\* What the handlers print about the naming of each key: how many NamePet
\* calls returned nil, how many an error and which, and how many requests
\* were turned down as a "Security violation".
NoLog == [ok |-> 0, err |-> 0, errs |-> {}, denied |-> 0]
LogOf(log, key) == IF key \in DOMAIN log THEN log[key] ELSE NoLog
LogNamePet(log, key, err) ==
    MapPut(log, key, IF err = "" THEN [LogOf(log, key) EXCEPT !.ok = @ + 1]
                     ELSE [LogOf(log, key) EXCEPT !.err = @ + 1, !.errs = @ \cup {err}])
LogDenied(log, key) == MapPut(log, key, [LogOf(log, key) EXCEPT !.denied = @ + 1])

\* handleNamePetCommand with a pet_id: t.pets[params.PetID] is read without
\* the lock.  While a writer is inside its critical section the read races
\* with the map write: the runtime either stops the process ("concurrent map
\* read and map write") or the read goes through.
Lookup(t, race) ==
    /\ ~crashed
    /\ th[t].pc = "lookup"
    /\ IF race
       THEN /\ mutex # 0
            /\ crashed' = TRUE
            /\ th' = th
            /\ namePetLog' = namePetLog
       ELSE /\ crashed' = crashed
            /\ LET id == th[t].params.PetID
                   targetEgg == TargetEggByID(pets, id, th[t].evt.PubKey)
               IN /\ th' = IF targetEgg = "" THEN Return(t)
                           ELSE [th EXCEPT ![t].pc = "NamePet", ![t].target = targetEgg]
                  /\ namePetLog' =
                        IF id \in DOMAIN pets /\ IsPetCreator(pets[id])
                           /\ GetOwnerPubKey(pets[id]) # th[t].evt.PubKey
                        THEN LogDenied(namePetLog, id) ELSE namePetLog
    /\ UNCHANGED <<pets, mutex, nextKey, now, tasks, nEvents, verdict,
                   publishEventHook, status, locks>>

\* handleNamePetCommand without a pet_id: FindEggsByOwner under the read lock.
FindEggs(t) ==
    /\ ~crashed
    /\ th[t].pc = "FindEggsByOwner"
    /\ mutex = 0
    /\ LET eggs == FindEggsByOwner(pets, th[t].evt.PubKey)
       IN IF eggs = {} THEN th' = Return(t)
          ELSE \E k \in eggs :
                  th' = [th EXCEPT ![t].pc = "NamePet", ![t].target = pets[k].publicKey]
    /\ UNCHANGED <<pets, mutex, nextKey, now, tasks, nEvents, crashed, namePetLog, verdict,
                   publishEventHook, status, locks>>

\* A naming whose metadata goroutine starts whether NamePet succeeded or not.
NamePetLockedAlwaysPublishes(t) ==
    /\ ~crashed
    /\ th[t].pc = "NamePet_locked"
    /\ mutex = t
    /\ LET r == NamePet(pets, th[t].target, th[t].params.Name, nextKey + 1, now)
       IN /\ pets' = r.pets
          /\ nextKey' = IF r.err = "" THEN nextKey + 1 ELSE nextKey
          /\ tasks' = tasks \cup
                {MetadataTask(IF r.err = "" THEN r.namedPet[1]
                              ELSE [NewDefaultPet(th[t].params.Name, 1, now) EXCEPT
                                       !.publicKey = th[t].target,
                                       !.ownerPubKey = th[t].evt.PubKey])}
          /\ namePetLog' = LogNamePet(namePetLog, th[t].target, r.err)
    /\ mutex' = 0
    /\ th' = Return(t)
    /\ UNCHANGED <<now, nEvents, crashed, verdict,
                   publishEventHook, status, locks>>

\* handleNamePetCommand: NamePet under the lock, then return true.
NamePetLocked(t) ==
    /\ ~crashed
    /\ th[t].pc = "NamePet_locked"
    /\ mutex = t
    /\ LET r == NamePet(pets, th[t].target, th[t].params.Name, nextKey + 1, now)
       IN /\ pets' = r.pets
          /\ nextKey' = IF r.err = "" THEN nextKey + 1 ELSE nextKey
          /\ tasks' = IF r.err = "" THEN tasks \cup {MetadataTask(r.namedPet[1])}
                      ELSE tasks
          /\ namePetLog' = LogNamePet(namePetLog, th[t].target, r.err)
    /\ mutex' = 0
    /\ th' = Return(t)
    /\ UNCHANGED <<now, nEvents, crashed, verdict,
                   publishEventHook, status, locks>>

\* handleStoreEvent / handleDeleteEvent: findTargetPet under the read lock.
\* The goroutine keeps the pet object it found: an egg object stays an egg
\* for it also when the registry entry is hatched meanwhile.
FindTarget(t) ==
    /\ ~crashed
    /\ th[t].pc = "findTargetPet"
    /\ mutex = 0
    /\ LET found == FindTargetPet(pets, th[t].evt)
       IN IF found = {} THEN th' = Return(t)
          ELSE \E k \in found :
                  th' = [th EXCEPT ![t].pc = IF th[t].hook = "store"
                                             THEN "pet_handleStoreEvent"
                                             ELSE "pet_handleDeleteEvent",
                                   ![t].target = k,
                                   ![t].targetIsEgg = IsPetCreator(pets[k])]
    /\ UNCHANGED <<pets, mutex, nextKey, now, tasks, nEvents, crashed, namePetLog, verdict,
                   publishEventHook, status, locks>>

\* targetPet.handleStoreEvent(ctx, evt)
Feed(t) ==
    /\ ~crashed
    /\ th[t].pc = "pet_handleStoreEvent"
    /\ pets' = IF th[t].targetIsEgg THEN pets
               ELSE [pets EXCEPT ![th[t].target] = pet_handleStoreEvent(@, now)]
    /\ th' = Return(t)
    /\ UNCHANGED <<mutex, nextKey, now, tasks, nEvents, crashed, namePetLog, verdict,
                   publishEventHook, status, locks>>

\* targetPet.handleDeleteEvent(ctx, evt): the snapshot under the read lock.
DeleteSnapshot(t) ==
    /\ ~crashed
    /\ th[t].pc = "pet_handleDeleteEvent"
    /\ th' = IF ~th[t].targetIsEgg /\ pets[th[t].target].Energy < DeleteThreshold
             THEN Goto(t, "pet_handleDeleteEvent_write")
             ELSE Return(t)
    /\ UNCHANGED <<pets, mutex, nextKey, now, tasks, nEvents, crashed, namePetLog, verdict,
                   publishEventHook, status, locks>>

\* ... and the write under the write lock.
DeleteWrite(t) ==
    /\ ~crashed
    /\ th[t].pc = "pet_handleDeleteEvent_write"
    /\ pets' = [pets EXCEPT ![th[t].target] = pet_handleDeleteEvent(@)]
    /\ th' = Return(t)
    /\ UNCHANGED <<mutex, nextKey, now, tasks, nEvents, crashed, namePetLog, verdict,
                   publishEventHook, status, locks>>

\* Totem.handleQueryEvents: every pet is consulted under the read lock.
HandleQueryEvents(limit) ==
    /\ ~crashed
    /\ mutex = 0
    /\ nEvents < MaxEvents
    /\ pets' = [k \in DOMAIN pets |-> pet_handleQueryEvents(pets[k])]
    /\ nEvents' = nEvents + 1
    /\ UNCHANGED <<mutex, th, nextKey, now, tasks, crashed, namePetLog, verdict,
                   publishEventHook, status, locks>>

\* main: the one-second ticker calls Update on every pet.
UpdatePet(k) ==
    /\ ~crashed
    /\ k \in DOMAIN pets
    /\ pets' = [pets EXCEPT ![k] = Update(@, now)]
    /\ UNCHANGED <<mutex, th, nextKey, now, tasks, nEvents, crashed, namePetLog, verdict,
                   publishEventHook, status, locks>>

\* Time passes.
Advance(d) ==
    /\ ~crashed
    /\ now + d <= MaxNow
    /\ now' = now + d
    /\ UNCHANGED <<pets, mutex, th, nextKey, tasks, nEvents, crashed, namePetLog, verdict,
                   publishEventHook, status, locks>>

Next ==
    \/ \E t \in Threads, evt \in StoreEvents, saved \in BOOLEAN :
          HandleStoreEvent(t, evt, saved)
    \/ \E t \in Threads, evt \in DeleteEvents, deleted \in BOOLEAN :
          HandleDeleteEvent(t, evt, deleted)
    \/ \E t \in Threads, task \in tasks, saved \in BOOLEAN : PublishMetadata(t, task, saved)
    \/ \E t \in Threads : Lock(t)
    \/ \E t \in Threads : CreatePetLocked(t)
    \/ \E t \in Threads, race \in BOOLEAN : Lookup(t, race)
    \/ \E t \in Threads : FindEggs(t)
    \/ \E t \in Threads : NamePetLocked(t)
    \/ \E t \in Threads : FindTarget(t)
    \/ \E t \in Threads : Feed(t)
    \/ \E t \in Threads : DeleteSnapshot(t)
    \/ \E t \in Threads : DeleteWrite(t)
    \/ \E limit \in {0, 5} : HandleQueryEvents(limit)
    \/ \E k \in DOMAIN pets : UpdatePet(k)
    \/ \E d \in Durations : Advance(d)

Spec == Init /\ [][Next]_vars

TypeOK ==
    /\ \A k \in DOMAIN pets : pets[k].variant \in {"EggPet", "DefaultPet"}
    /\ mutex \in 0..MaxThreads

\* ----------------------------------------- the registry called directly
\* The exported methods of a Totem called one after the other by one
\* caller: RegisterPet, CreatePet and NamePet with any arguments.
NewPets ==
    {NewDefaultPet(n, nextKey + 1, now) : n \in PetNames}
    \cup {NewEggPet(o, nextKey + 1, now) : o \in Owners}
CallOwners == Owners \cup {""}
CallKeys == {"pk1", "pk2", "Rex", "Egg"}

\* RegisterPet(p) for a pet the caller has just made.
CallRegisterPet(p) ==
    /\ nextKey < MaxKeys
    /\ pets' = RegisterPet(pets, p)
    /\ nextKey' = nextKey + 1
    /\ tasks' = IF IsPetCreator(p) THEN tasks \cup {MetadataTask(p)} ELSE tasks
    /\ verdict' = [NoVerdict EXCEPT !.op = "RegisterPet", !.target = p.Name]
    /\ UNCHANGED <<mutex, th, now, nEvents, crashed, namePetLog,
                   publishEventHook, status, locks>>

\* CreatePet(ownerPubKey)
CallCreatePet(ownerPubKey) ==
    /\ nextKey < MaxKeys
    /\ pets' = CreatePet(pets, ownerPubKey, nextKey + 1, now)
    /\ nextKey' = nextKey + 1
    /\ tasks' = tasks \cup {MetadataTask(NewEggPet(ownerPubKey, nextKey + 1, now))}
    /\ verdict' = [NoVerdict EXCEPT !.op = "CreatePet",
                                    !.target = GetPublicKey(nextKey + 1)]
    /\ UNCHANGED <<mutex, th, now, nEvents, crashed, namePetLog,
                   publishEventHook, status, locks>>

\* NamePet(pubKey, name): verdict.msg is the error returned ("" for nil).
CallNamePet(pubKey, name) ==
    /\ nextKey < MaxKeys
    /\ LET r == NamePet(pets, pubKey, name, nextKey + 1, now)
       IN /\ pets' = r.pets
          /\ nextKey' = IF r.err = "" THEN nextKey + 1 ELSE nextKey
          /\ tasks' = IF r.err = "" THEN tasks \cup {MetadataTask(r.namedPet[1])}
                      ELSE tasks
          /\ verdict' = [NoVerdict EXCEPT !.op = "NamePet", !.target = pubKey,
                                          !.msg = r.err]
    /\ UNCHANGED <<mutex, th, now, nEvents, crashed, namePetLog,
                   publishEventHook, status, locks>>

NextAPI ==
    \/ \E p \in NewPets : CallRegisterPet(p)
    \/ \E o \in CallOwners : CallCreatePet(o)
    \/ \E k \in CallKeys, n \in PetNames : CallNamePet(k, n)
    \/ \E task \in tasks : PublishMetadata(1, task, FALSE)

SpecAPI == Init /\ [][NextAPI]_vars

\* ------------------------------------------------- the read-only policies
\* findTargetPet, handleRejectEvent and GetStateEmoji read the registry and
\* write nothing; they are applied to registries of every shape: up to three
\* entries, each an egg or a pet of either owner, and one pet in every mood.
Levels == {0, 290, 300, 490, 500, 790, 800, 1000}
SampleEgg(i, owner) == NewEggPet(owner, i, 0)
SamplePet(i, owner, e, h) ==
    [HandleNaming(SampleEgg(i, owner), "Rex", i, 0) EXCEPT !.Energy = e, !.Happiness = h]
Residents(i) ==
    {SampleEgg(i, o) : o \in Owners}
    \cup {SamplePet(i, o, FullScale, FullScale) : o \in Owners}
Households ==
    UNION {{r \in [{PubKeys[i] : i \in S} -> UNION {Residents(i) : i \in S}] :
                \A i \in S : r[PubKeys[i]] \in Residents(i)} :
           S \in SUBSET (1..3)}
Moods == {[k \in {"pk1"} |-> SamplePet(1, "ownerA", e, h)] : e \in Levels, h \in Levels}
SampleRegistries == Households \cup Moods

\* Messages offered to the relay: short and long, with and without "p" tags.
RejectEvents ==
    {Event(a, NoteKind, tags, Text(n)) :
        a \in Owners,
        tags \in {<<>>, << <<"p", "pk1">> >>,
                  << <<"p", "nokey">>, <<"p", "pk2">>, <<"p", "pk1">> >>,
                  << <<"p">>, <<"e", "pk1">> >>},
        n \in {LongMessage, LongMessage + 1}}

InitPolicy ==
    /\ pets \in SampleRegistries
    /\ mutex = 0
    /\ th = [t \in Threads |-> Idle]
    /\ nextKey = 3
    /\ now = 0
    /\ tasks = {}
    /\ nEvents = 0
    /\ crashed = FALSE
    /\ namePetLog = <<>>
    /\ verdict = NoVerdict
    /\ publishEventHook = TRUE
    /\ status = StatusOff
    /\ locks = NoLocks

\* TotemRelay.handleRejectEvent -> Totem.handleRejectEvent: findTargetPet
\* under the read lock, then the pet's own handleRejectEvent.
HandleRejectEvent(evt) ==
    /\ mutex = 0
    /\ LET found == FindTargetPet(pets, evt)
       IN IF found = {}
          THEN verdict' = [NoVerdict EXCEPT !.op = "handleRejectEvent", !.evt = evt]
          ELSE \E k \in found :
                  LET r == pet_handleRejectEvent(pets[k], evt)
                  IN verdict' = [NoVerdict EXCEPT !.op = "handleRejectEvent",
                                                  !.evt = evt, !.target = k,
                                                  !.reject = r.reject, !.msg = r.msg]
    /\ UNCHANGED <<pets, mutex, th, nextKey, now, tasks, nEvents, crashed, namePetLog,
                   publishEventHook, status, locks>>

\* Server.handleState: the page shows GetStateEmoji of a pet.
CallGetStateEmoji(k) ==
    /\ k \in DOMAIN pets
    /\ verdict' = [NoVerdict EXCEPT !.op = "GetStateEmoji", !.target = k,
                                    !.msg = GetStateEmoji(pets[k])]
    /\ UNCHANGED <<pets, mutex, th, nextKey, now, tasks, nEvents, crashed, namePetLog,
                   publishEventHook, status, locks>>

NextPolicy ==
    \/ \E evt \in RejectEvents : HandleRejectEvent(evt)
    \/ \E k \in DOMAIN pets : CallGetStateEmoji(k)

SpecPolicy == InitPolicy /\ [][NextPolicy]_vars

\* ------------------------------------------------- one pet and its care
\* A registry holding one pet of any mood, or one egg, is fed, queried,
\* counted, told of deletions and decayed over a long stretch of time.
LongDurations == {200, 800}
CareEvents == {evt \in NoteEvents : evt.PubKey = "ownerB" /\ Len(evt.Tags) = 1}
CareDeletes == {evt \in DeleteEvents : evt.PubKey = "ownerB" /\ evt.Tags # <<>>}
CareRegistries ==
    {r \in Moods : r["pk1"].Energy \in {0, 290, 490, 500, 1000}
                   /\ r["pk1"].Happiness \in {300, 1000}}
    \cup {[k \in {"pk1"} |-> SampleEgg(1, "ownerA")]}

InitCare ==
    /\ pets \in CareRegistries
    /\ mutex = 0
    /\ th = [t \in Threads |-> Idle]
    /\ nextKey = 1
    /\ now = 0
    /\ tasks = {}
    /\ nEvents = 0
    /\ crashed = FALSE
    /\ namePetLog = <<>>
    /\ verdict = NoVerdict
    /\ publishEventHook = TRUE
    /\ status = StatusOff
    /\ locks = NoLocks

\* TotemRelay.handleCountEvents: the filter shaped by the pets is the one
\* the database counts with.
HandleCountEvents(filter) ==
    /\ ~crashed
    /\ mutex = 0
    /\ nEvents < MaxEvents
    /\ pets' = [k \in DOMAIN pets |-> pet_handleQueryEvents(pets[k])]
    /\ nEvents' = nEvents + 1
    /\ verdict' = [NoVerdict EXCEPT
                      !.op = "handleCountEvents",
                      !.filter = totem_handleQueryEvents(pets, DOMAIN pets, filter)]
    /\ UNCHANGED <<mutex, th, nextKey, now, tasks, crashed, namePetLog,
                   publishEventHook, status, locks>>

NextCare ==
    \/ \E t \in Threads, evt \in CareEvents, saved \in BOOLEAN :
          HandleStoreEvent(t, evt, saved)
    \/ \E t \in Threads : FindTarget(t)
    \/ \E t \in Threads : Feed(t)
    \/ \E t \in Threads, evt \in CareDeletes, deleted \in BOOLEAN :
          HandleDeleteEvent(t, evt, deleted)
    \/ \E t \in Threads : DeleteSnapshot(t)
    \/ \E t \in Threads : DeleteWrite(t)
    \/ \E limit \in {0} : HandleQueryEvents(limit)
    \/ \E filter \in Filters : HandleCountEvents(filter)
    \/ \E k \in DOMAIN pets : UpdatePet(k)
    \/ \E d \in LongDurations : Advance(d)

SpecCare == InitCare /\ [][NextCare]_vars

\* ------------------------------------------- several entities, one filter
\* Registries of two pets, each rested, at the threshold, tired or exhausted,
\* and an egg (or an egg alone) are queried and counted.
Herds ==
    {[k \in {"pk1", "pk2", "pk3"} |->
         IF k = "pk1" THEN SamplePet(1, "ownerA", e1, FullScale)
         ELSE IF k = "pk2" THEN SamplePet(2, "ownerB", e2, FullScale)
         ELSE SampleEgg(3, "ownerA")] :
        e1 \in {0, 290, 300, 1000}, e2 \in {0, 290, 300, 1000}}
    \cup {[k \in {"pk1"} |-> SampleEgg(1, "ownerA")]}

InitShape ==
    /\ pets \in Herds
    /\ mutex = 0
    /\ th = [t \in Threads |-> Idle]
    /\ nextKey = 3
    /\ now = 0
    /\ tasks = {}
    /\ nEvents = 0
    /\ crashed = FALSE
    /\ namePetLog = <<>>
    /\ verdict = NoVerdict
    /\ publishEventHook = TRUE
    /\ status = StatusOff
    /\ locks = NoLocks

\* TotemRelay.handleQueryEvents: the filter shaped by the pets is the one
\* the database is queried with.
HandleQueryHook(filter) ==
    /\ ~crashed
    /\ mutex = 0
    /\ nEvents < MaxEvents
    /\ pets' = [k \in DOMAIN pets |-> pet_handleQueryEvents(pets[k])]
    /\ nEvents' = nEvents + 1
    /\ verdict' = [NoVerdict EXCEPT
                      !.op = "handleQueryEvents",
                      !.filter = totem_handleQueryEvents(pets, DOMAIN pets, filter)]
    /\ UNCHANGED <<mutex, th, nextKey, now, tasks, crashed, namePetLog,
                   publishEventHook, status, locks>>

NextShape ==
    \/ \E filter \in Filters : HandleQueryHook(filter)
    \/ \E filter \in Filters : HandleCountEvents(filter)

SpecShape == InitShape /\ [][NextShape]_vars

\* ------------------------------------------------ the status loop
\* fmt.Sprintf("%.1f", x) of a number kept in tenths, and the date of a time.
FormatTenths(x) == ToString(x \div 10) \o "." \o ToString(x % 10)
FormatTime(clock) == "t" \o ToString(clock)

\* BasePet.PublishStatusEvent: the message built from the copy of the pet's
\* state and from what p.GetStateEmoji() returned.
StatusEvent(state, emoji) ==
    Event(state.publicKey, KindPetStatus,
          << <<"d", "pet/status">>,
             <<"energy", FormatTenths(state.Energy)>>,
             <<"happiness", FormatTenths(state.Happiness)>>,
             <<"last_fed", FormatTime(state.LastFed)>>,
             <<"name", state.Name>>,
             <<"state_emoji", emoji>> >>,
          Text(22 + Len(state.Name)))

\* The snapshot of a tick with the eggs in it.
StatusSnapshotAll(reg) == DOMAIN reg

\* The pets a tick collects under the read lock: every entry but the eggs.
StatusSnapshot(reg) == {k \in DOMAIN reg : ~IsPetCreator(reg[k])}

\* The loop giving up on the first publish that fails.
StatusStepStopsOnError(st, k, err) ==
    IF err
    THEN [st EXCEPT !.todo = {}, !.attempts[k] = @ + 1, !.failed = @ \cup {k},
                    !.pc = "waiting"]
    ELSE [st EXCEPT !.todo = @ \ {k}, !.attempts[k] = @ + 1,
                    !.pc = IF st.todo = {k} THEN "waiting" ELSE "publishing"]

\* One turn of "for _, pet := range pets": the error is printed and the loop
\* goes on to the next pet, or back to waiting for the ticker.
StatusStep(st, k, err) ==
    [st EXCEPT !.todo = @ \ {k}, !.attempts[k] = @ + 1,
               !.failed = IF err THEN @ \cup {k} ELSE @,
               !.pc = IF st.todo = {k} THEN "waiting" ELSE "publishing"]

\* StartPetStatusUpdates: the loop starts waiting for its ticker.
StartPetStatusUpdates ==
    /\ ~crashed
    /\ status.pc = "off"
    /\ status' = [status EXCEPT !.pc = "waiting"]
    /\ UNCHANGED <<pets, mutex, th, nextKey, now, tasks, nEvents, crashed, namePetLog,
                   verdict, publishEventHook, locks>>

\* case <-ticker.C: the pets are collected under the read lock.
StatusTick ==
    /\ ~crashed
    /\ status.pc = "waiting"
    /\ mutex = 0
    /\ LET snap == StatusSnapshot(pets)
       IN status' = [pc |-> IF snap = {} THEN "waiting" ELSE "publishing",
                     snap |-> snap, todo |-> snap,
                     attempts |-> [k \in snap |-> 0], failed |-> {},
                     held |-> <<>>]
    /\ UNCHANGED <<pets, mutex, th, nextKey, now, tasks, nEvents, crashed, namePetLog,
                   verdict, publishEventHook, locks>>

\* pet.PublishStatusEvent for one pet of the snapshot, its first lines:
\* "state := p.state" under the pet's read lock, which is then released.
StatusCopy(k) ==
    /\ ~crashed
    /\ status.pc = "publishing"
    /\ k \in status.todo
    /\ status.held = <<>>
    /\ status' = [status EXCEPT !.held = <<pets[k]>>]
    /\ UNCHANGED <<pets, mutex, th, nextKey, now, tasks, nEvents, crashed, namePetLog,
                   verdict, publishEventHook, locks>>

\* The rest of pet.PublishStatusEvent(pubCtx, t.publishEventHook): the
\* message is built from the copy, but its state_emoji tag from
\* p.GetStateEmoji(), which reads the pet's state again under a read lock
\* of its own.  The hook field is handed over as it is: when it is nil,
\* BasePet.PublishEvent calls a nil function and the process panics.  A
\* hook that saved the message has started Totem.handleStoreEvent for it in
\* a goroutine; one that failed or timed out returned an error.
StatusPublish(t, k, saved) ==
    /\ ~crashed
    /\ status.pc = "publishing"
    /\ k \in status.todo
    /\ status.held # <<>>
    /\ status.held[1].publicKey = k
    /\ IF ~publishEventHook
       THEN /\ crashed' = TRUE
            /\ t = 1 /\ ~saved
            /\ UNCHANGED <<th, status>>
       ELSE /\ crashed' = crashed
            /\ status' = [StatusStep(status, k, ~saved) EXCEPT !.held = <<>>]
            /\ IF saved /\ ~IsPetCreator(pets[k])
               THEN /\ Free(t)
                    /\ th' = Start(t, "store",
                                   StatusEvent(status.held[1], GetStateEmoji(pets[k])))
               ELSE /\ t = 1
                    /\ th' = th
    /\ UNCHANGED <<pets, mutex, nextKey, now, tasks, nEvents, namePetLog, verdict,
                   publishEventHook, locks>>

\* The relay with its status loop, on a registry of up to two eggs and pets
\* to which an egg can be added or in which an egg can hatch meanwhile, or
\* on a registry of one hungry pet.
StatusRegistries ==
    {r \in Households : DOMAIN r \subseteq {"pk1", "pk2"}}
    \cup {[k \in {"pk1"} |-> SamplePet(1, "ownerA", 490, FullScale)]}

InitStatus ==
    /\ pets \in StatusRegistries
    /\ mutex = 0
    /\ th = [t \in Threads |-> Idle]
    /\ nextKey = 2
    /\ now = 0
    /\ tasks = {}
    /\ nEvents = 0
    /\ crashed = FALSE
    /\ namePetLog = <<>>
    /\ verdict = NoVerdict
    /\ publishEventHook = TRUE
    /\ status = StatusOff
    /\ locks = NoLocks

NextStatus ==
    \/ StartPetStatusUpdates
    \/ StatusTick
    \/ \E k \in status.todo : StatusCopy(k)
    \/ \E t \in Threads, k \in status.todo, saved \in BOOLEAN : StatusPublish(t, k, saved)
    \/ \E o \in Owners : CallCreatePet(o)
    \/ \E k \in {"pk1", "pk2"}, n \in PetNames : CallNamePet(k, n)
    \/ \E t \in Threads, task \in tasks, saved \in BOOLEAN : PublishMetadata(t, task, saved)
    \/ \E t \in Threads : FindTarget(t)
    \/ \E t \in Threads : Feed(t)

SpecStatus == InitStatus /\ [][NextStatus]_vars
\* The loop's goroutine keeps running and each publish call returns, with
\* the message saved or with an error (the 5 s timeout at the latest).
SpecStatusFair ==
    /\ SpecStatus
    /\ WF_vars(\E k \in status.todo : StatusCopy(k))
    /\ WF_vars(\E t \in Threads, k \in status.todo, saved \in BOOLEAN :
                   StatusPublish(t, k, saved))

\* ------------------------------------------- a Totem before its wiring
\* NewTotem leaves publishEventHook nil until SetPublishEventHook is called;
\* eggs are laid and hatch, their metadata is published and the status loop
\* runs before and after that call.
InitWiring ==
    /\ pets = <<>>
    /\ mutex = 0
    /\ th = [t \in Threads |-> Idle]
    /\ nextKey = 0
    /\ now = 0
    /\ tasks = {}
    /\ nEvents = 0
    /\ crashed = FALSE
    /\ namePetLog = <<>>
    /\ verdict = NoVerdict
    /\ publishEventHook = FALSE
    /\ status = StatusOff
    /\ locks = NoLocks

SetPublishEventHook ==
    /\ ~crashed
    /\ ~publishEventHook
    /\ publishEventHook' = TRUE
    /\ UNCHANGED <<pets, mutex, th, nextKey, now, tasks, nEvents, crashed, namePetLog,
                   verdict, status, locks>>

NextWiring ==
    \/ SetPublishEventHook
    \/ \E o \in Owners : ~crashed /\ CallCreatePet(o)
    \/ \E k \in {"pk1", "pk2"}, n \in PetNames : ~crashed /\ CallNamePet(k, n)
    \/ \E t \in Threads, task \in tasks, saved \in BOOLEAN : PublishMetadata(t, task, saved)
    \/ StartPetStatusUpdates
    \/ StatusTick
    \/ \E k \in status.todo : StatusCopy(k)
    \/ \E t \in Threads, k \in status.todo, saved \in BOOLEAN : StatusPublish(t, k, saved)
    \/ \E t \in Threads : FindTarget(t)
    \/ \E t \in Threads : Feed(t)

SpecWiring == InitWiring /\ [][NextWiring]_vars

\* ------------------------------------------------------- the two locks
\* The lock operations of every handler, in the order of the source, on the
\* registry lock "reg" (Totem.mutex) and on an entity lock "pet"
\* (BasePet.mutex), both sync.RWMutex.
LockOp(kind, lock) == [op |-> kind, lock |-> lock]
ReadSection(lock, inner) ==
    <<LockOp("RLock", lock)>> \o inner \o <<LockOp("RUnlock", lock)>>
WriteSection(lock, inner) ==
    <<LockOp("Lock", lock)>> \o inner \o <<LockOp("Unlock", lock)>>

\* A read and a write of the entity's state (p.state), where they stand
\* among the lock operations.
ReadState == <<LockOp("Read", "pet")>>
WriteState == <<LockOp("Write", "pet")>>

GetState_locks == ReadSection("pet", ReadState)
findTargetPet_locks(tagged) ==
    ReadSection("reg", IF tagged THEN GetState_locks ELSE <<>>)
pet_handleStoreEvent_locks ==
    ReadSection("pet", ReadState) \o WriteSection("pet", WriteState)
pet_handleDeleteEvent_locks(low) ==
    ReadSection("pet", ReadState) \o (IF low THEN WriteSection("pet", WriteState) ELSE <<>>)
pet_handleQueryEvents_locks ==
    ReadSection("pet", ReadState) \o WriteSection("pet", WriteState)
PublishStatusEvent_locks == ReadSection("pet", ReadState) \o ReadSection("pet", ReadState)
\* EggPet.HandleNaming reads p.state.Happiness, Energy and LastFed of the
\* egg, and publishMetadataEvent reads p.state.Name, with no lock operation
\* around the read.
HandleNaming_locks == ReadState
publishMetadataEvent_locks == ReadState

\* handleQueryEvents calling back into the registry from inside the pet's
\* write section.
totem_handleQueryEvents_locksInside(petOps) ==
    SubSeq(petOps, 1, Len(petOps) - 1) \o ReadSection("reg", <<>>)
    \o <<petOps[Len(petOps)]>>

\* Totem.handleQueryEvents: the pet is consulted inside the registry's read
\* section.
totem_handleQueryEvents_locks(petOps) == ReadSection("reg", petOps)

\* What one goroutine can run from start to end.
LockScripts ==
    \* handleStoreEvent and handleDeleteEvent of a message for a pet
    {findTargetPet_locks(tagged) \o GetState_locks \o pet_handleStoreEvent_locks :
        tagged \in BOOLEAN}
    \cup {findTargetPet_locks(tagged) \o GetState_locks \o pet_handleDeleteEvent_locks(low) :
        tagged \in BOOLEAN, low \in BOOLEAN}
    \* handleRejectEvent
    \cup {findTargetPet_locks(tagged) \o ReadSection("pet", <<>>) : tagged \in BOOLEAN}
    \* handleQueryEvents
    \cup {totem_handleQueryEvents_locks(pet_handleQueryEvents_locks)}
    \* create_egg, and a NamePet that returns an error; a NamePet that
    \* hatches the egg; name_pet without a pet_id (FindEggsByOwner first)
    \cup {WriteSection("reg", <<>>),
          WriteSection("reg", HandleNaming_locks),
          ReadSection("reg", <<>>) \o WriteSection("reg", <<>>),
          ReadSection("reg", <<>>) \o WriteSection("reg", HandleNaming_locks)}
    \* RegisterPet
    \cup {WriteSection("reg", GetState_locks)}
    \* the decay ticker: GetPets, then Update
    \cup {ReadSection("reg", <<>>) \o WriteSection("pet", ReadState \o WriteState)}
    \* a status tick: the snapshot, PublishStatusEvent, GetState for the error
    \cup {ReadSection("reg", <<>>) \o PublishStatusEvent_locks \o err :
            err \in {<<>>, GetState_locks}}
    \* the goroutine of publishMetadataEvent
    \cup {publishMetadataEvent_locks}

\* sync.RWMutex: a reader gets in when no writer holds the lock or waits
\* for it; a writer first announces itself, then gets in when the lock is
\* free of readers and writers.
CanLockStep(lk, t) ==
    /\ lk.script[t] # <<>>
    /\ LET o == lk.script[t][1]
           m == lk[o.lock]
       IN CASE o.op = "RLock" -> m.writer = 0 /\ m.waiting = {}
            [] o.op = "Lock" -> t \notin m.waiting \/ (m.readers = {} /\ m.writer = 0)
            [] OTHER -> TRUE
LockStepOf(lk, t) ==
    LET o == lk.script[t][1]
        m == lk[o.lock]
        rest == [lk.script EXCEPT ![t] = Tail(@)]
    IN CASE o.op = "RLock" ->
              [lk EXCEPT ![o.lock].readers = @ \cup {t}, !.script = rest]
         [] o.op = "RUnlock" ->
              [lk EXCEPT ![o.lock].readers = @ \ {t}, !.script = rest]
         [] o.op = "Lock" /\ t \notin m.waiting ->
              [lk EXCEPT ![o.lock].waiting = @ \cup {t}]
         [] o.op = "Lock" /\ t \in m.waiting ->
              [lk EXCEPT ![o.lock].waiting = @ \ {t}, ![o.lock].writer = t,
                         !.script = rest]
         [] o.op = "Unlock" ->
              [lk EXCEPT ![o.lock].writer = 0, !.script = rest]
         [] OTHER -> [lk EXCEPT !.script = rest]

\* A goroutine starts a handler ...
StartScript(t, script) ==
    /\ locks.script[t] = <<>>
    /\ locks' = [locks EXCEPT !.script[t] = script]
    /\ UNCHANGED <<pets, mutex, th, nextKey, now, tasks, nEvents, crashed, namePetLog,
                   verdict, publishEventHook, status>>

\* ... and makes its next lock operation when the lock lets it.
LockStep(t) ==
    /\ CanLockStep(locks, t)
    /\ locks' = LockStepOf(locks, t)
    /\ UNCHANGED <<pets, mutex, th, nextKey, now, tasks, nEvents, crashed, namePetLog,
                   verdict, publishEventHook, status>>

NextLocks ==
    \/ \E t \in Threads, script \in LockScripts : StartScript(t, script)
    \/ \E t \in Threads : LockStep(t)

SpecLocks == Init /\ [][NextLocks]_vars

\* ================================================================ claims
IsDefaultPet(p) == p.variant = "DefaultPet"
\* The recognition gate, and the command a message carries, read off the
\* message itself.
Gated(evt) ==
    /\ evt.Kind = 5910
    /\ \E i \in 1..Len(evt.Tags) :
          Len(evt.Tags[i]) >= 2 /\ SubSeq(evt.Tags[i], 1, 2) = <<"c", "execute-tool">>
CommandName(evt) == IF evt.Content.valid /\ evt.Content.name.t = "string"
                    THEN evt.Content.name.s ELSE ""
FeedingPcs == {"findTargetPet", "pet_handleStoreEvent"}
\* The step is one of goroutine t that ends its handler.
Returns(t) == th[t].pc # "idle" /\ th'[t].pc = "idle"

\* C1: in every reachable state, the energy and the happiness of every
\* entity, egg or pet, are within [0,100] (0..1000 tenths), whatever the
\* interleaving of decay ticks, feedings, deletions and query shapings.
C1_StateClamped ==
    \A k \in DOMAIN pets :
        /\ pets[k].Energy \in 0..FullScale
        /\ pets[k].Happiness \in 0..FullScale
\* A pet that was not fed for a while and that decay has brought down to 0
\* on both scales.
C1_Witness ==
    \E k \in DOMAIN pets :
        /\ IsDefaultPet(pets[k])
        /\ pets[k].Energy = 0 /\ pets[k].Happiness = 0
        /\ now > pets[k].LastFed

\* C2: a registry entry changes from egg to pet only in the NamePet step of
\* a goroutine handling a name_pet command whose sender is the owner
\* recorded on that egg, with or without pet_id.
C2_HatchOnlyByOwner ==
    [][\A k \in DOMAIN pets :
          (IsPetCreator(pets[k]) /\ (k \notin DOMAIN pets' \/ ~IsPetCreator(pets'[k])))
          => \E t \in Threads :
                /\ th[t].pc = "NamePet_locked" /\ Returns(t)
                /\ th[t].target = k
                /\ th[t].hook = "store"
                /\ Gated(th[t].evt) /\ CommandName(th[t].evt) = CmdNamePet
                /\ th[t].evt.PubKey = GetOwnerPubKey(pets[k])
                /\ k \in DOMAIN pets' /\ IsDefaultPet(pets'[k])]_vars
\* Eggs of two owners were there and ownerB's has hatched.
C2_Witness ==
    \E k, j \in DOMAIN pets :
        /\ IsDefaultPet(pets[k]) /\ GetOwnerPubKey(pets[k]) = "ownerB"
        /\ IsPetCreator(pets[j]) /\ GetOwnerPubKey(pets[j]) = "ownerA"

\* C3: when a name_pet command with a pet_id reads an egg whose owner is not
\* the sender, the handler returns there: the registry is unchanged (the
\* egg is still an egg with the same energy and happiness) and NamePet is
\* not called.
C3_ForeignNameRejected ==
    [][\A t \in Threads :
          LET id == th[t].params.PetID
          IN (/\ th[t].pc = "lookup" /\ th'[t] # th[t]
              /\ id \in DOMAIN pets /\ IsPetCreator(pets[id])
              /\ GetOwnerPubKey(pets[id]) # th[t].evt.PubKey)
             => /\ pets' = pets
                /\ IsPetCreator(pets'[id])
                /\ th'[t].pc = "idle"
                /\ namePetLog'[id].ok = 0]_vars
\* A request for somebody else's egg was turned down and the egg is an egg.
C3_Witness ==
    \E k \in DOMAIN namePetLog :
        /\ namePetLog[k].denied > 0
        /\ k \in DOMAIN pets /\ IsPetCreator(pets[k])
        /\ pets[k].Energy = FullScale /\ pets[k].Happiness = FullScale

\* C4: of the NamePet calls made for one egg exactly one returns nil, and
\* every other one returns "not found" or "not in egg state"; there is one
\* pet under the key and it carries the key.
C4_OneHatchPerEgg ==
    \A k \in DOMAIN namePetLog :
        LET l == namePetLog[k]
        IN /\ l.ok <= 1
           /\ l.err > 0 => l.ok = 1
           /\ l.errs \subseteq {"not found", "not in egg state"}
           /\ l.ok = 1 => /\ k \in DOMAIN pets /\ IsDefaultPet(pets[k])
                          /\ Cardinality({j \in DOMAIN pets :
                                            pets[j].publicKey = k /\ IsDefaultPet(pets[j])}) = 1
\* Two commands raced for one egg: one NamePet call won, the other lost.
C4_Witness ==
    \E k \in DOMAIN namePetLog : namePetLog[k].ok = 1 /\ namePetLog[k].err = 1

\* C5: a NamePet call on key K that returns nil leaves the set of registry
\* keys and every other entry as they were, and puts at K a pet with the
\* public key, private key, energy and happiness of the egg that was at K.
C5_HatchKeepsIdentity ==
    [][\A K \in DOMAIN pets :
          (LogOf(namePetLog', K).ok = LogOf(namePetLog, K).ok + 1)
          => /\ IsPetCreator(pets[K])
             /\ DOMAIN pets' = DOMAIN pets
             /\ \A j \in (DOMAIN pets) \ {K} : pets'[j] = pets[j]
             /\ IsDefaultPet(pets'[K]) /\ ~IsPetCreator(pets'[K])
             /\ pets'[K].publicKey = pets[K].publicKey /\ pets'[K].publicKey = K
             /\ pets'[K].privateKey = pets[K].privateKey
             /\ pets'[K].Energy = pets[K].Energy
             /\ pets'[K].Happiness = pets[K].Happiness]_vars
\* The second egg created has hatched next to the first: the pet at pk2
\* has the second key pair although HandleNaming drew a third.
C5_Witness ==
    /\ DOMAIN pets = {"pk1", "pk2"}
    /\ IsPetCreator(pets["pk1"])
    /\ IsDefaultPet(pets["pk2"]) /\ pets["pk2"].privateKey = 2
    /\ LogOf(namePetLog, "pk2").ok = 1
    /\ nextKey = 3

\* C6: no step removes a registry key, and no step turns a pet back into an
\* egg.
C6_OneWay ==
    [][/\ DOMAIN pets \subseteq DOMAIN pets'
       /\ \A k \in DOMAIN pets : IsDefaultPet(pets[k]) => IsDefaultPet(pets'[k])]_vars
\* A pet that a later name_pet tried to hatch again and that has decayed.
C6_Witness ==
    \E k \in DOMAIN pets :
        /\ IsDefaultPet(pets[k])
        /\ LogOf(namePetLog, k).err > 0
        /\ pets[k].Energy < FullScale

DecodableCommand(evt) ==
    LET params == evt.Content.parameters
    IN \/ /\ CommandName(evt) = "create_egg"
          /\ params.t \in {"absent", "null", "object"}
       \/ /\ CommandName(evt) = "name_pet"
          /\ params.t = "object"
          /\ params.name.t = "string" /\ params.name.s # ""
          /\ params.pet_id.t \in {"absent", "null", "string"}
Ungated(r) == r.hook = "store" /\ r.pc # "idle" /\ ~Gated(r.evt)
C8_UngatedOnlyFeeds ==
    [][\A t \in Threads :
          /\ Ungated(th[t]) => th[t].pc \in FeedingPcs
          /\ Ungated(th'[t]) => th'[t].pc \in FeedingPcs
          /\ (Ungated(th[t]) /\ th'[t] # th[t])
             => /\ DOMAIN pets' = DOMAIN pets
                /\ \A k \in DOMAIN pets : pets'[k].variant = pets[k].variant]_vars
\* A message with create_egg as content but without the tag value has been
\* resolved to a pet and is about to feed it.
C8_Witness ==
    \E t \in Threads :
        /\ Ungated(th[t])
        /\ th[t].evt.Kind = 5910
        /\ CommandName(th[t].evt) = "create_egg"
        /\ th[t].pc = "pet_handleStoreEvent"
        /\ th[t].target \in DOMAIN pets

\* The handling of message evt ends in this step with one new egg of the
\* sender, at full energy and happiness, and all else as it was.
OneEggAdded(evt) ==
    \E k \in (DOMAIN pets') \ (DOMAIN pets) :
        /\ DOMAIN pets' = (DOMAIN pets) \cup {k}
        /\ IsPetCreator(pets'[k])
        /\ GetOwnerPubKey(pets'[k]) = evt.PubKey
        /\ pets'[k].Energy = FullScale /\ pets'[k].Happiness = FullScale
        /\ pets'[k].publicKey = k
        /\ \A j \in DOMAIN pets : pets'[j] = pets[j]
\* C9 as claimed: the handling of every gated create_egg message, whatever
\* its parameters, ends with exactly one new egg of the sender.
C9_AsClaimed ==
    [][\A t \in Threads :
          (/\ th[t].hook = "store" /\ Gated(th[t].evt)
           /\ CommandName(th[t].evt) = "create_egg"
           /\ Returns(t))
          => OneEggAdded(th[t].evt)]_vars
\* C9: the handling of every gated create_egg message whose parameters are
\* absent, null or a JSON object ends with exactly one new egg of the
\* sender (energy 100, happiness 100) under a fresh key, every other entry
\* unchanged, also when the sender owns eggs already.
C9_CreateEggAddsOne ==
    [][\A t \in Threads :
          (/\ th[t].hook = "store" /\ Gated(th[t].evt)
           /\ CommandName(th[t].evt) = "create_egg"
           /\ th[t].evt.Content.parameters.t \in {"absent", "null", "object"}
           /\ Returns(t))
          => OneEggAdded(th[t].evt)]_vars
\* One owner has two eggs.
C9_Witness ==
    \E k, j \in DOMAIN pets :
        /\ k # j
        /\ IsPetCreator(pets[k]) /\ IsPetCreator(pets[j])
        /\ GetOwnerPubKey(pets[k]) = GetOwnerPubKey(pets[j])

\* C10: a name_pet {name: N} without pet_id from a sender who owns an egg
\* is taken to NamePet for one of the sender's eggs, and when that call
\* finds the egg, the egg's key holds a pet named N with energy 100 and
\* happiness 100 whose display symbol is not the egg's.
C10_CreateThenName ==
    [][\A t \in Threads :
          /\ (/\ th[t].pc = "FindEggsByOwner" /\ th'[t] # th[t]
              /\ \E k \in DOMAIN pets :
                    IsPetCreator(pets[k]) /\ GetOwnerPubKey(pets[k]) = th[t].evt.PubKey)
             => /\ th'[t].pc = "NamePet"
                /\ th'[t].target \in DOMAIN pets
                /\ IsPetCreator(pets[th'[t].target])
                /\ GetOwnerPubKey(pets[th'[t].target]) = th[t].evt.PubKey
          /\ (/\ th[t].pc = "NamePet_locked" /\ Returns(t)
              /\ th[t].params.PetID = ""
              /\ th[t].target \in DOMAIN pets /\ IsPetCreator(pets[th[t].target]))
             => LET p == pets'[th[t].target]
                IN /\ IsDefaultPet(p)
                   /\ p.Name = th[t].evt.Content.parameters.name.s
                   /\ p.Energy = FullScale /\ p.Happiness = FullScale
                   /\ GetStateEmoji(p) # "egg"]_vars
\* ownerA's egg has just become the pet Bo, delighted at 100/100.
C10_Witness ==
    \E k \in DOMAIN pets :
        /\ IsDefaultPet(pets[k]) /\ pets[k].Name = "Bo"
        /\ GetOwnerPubKey(pets[k]) = "ownerA"
        /\ pets[k].Energy = FullScale /\ pets[k].Happiness = FullScale
        /\ GetStateEmoji(pets[k]) = "delighted"

\* C11: a call NamePet(pubKey, name) returns an error and leaves the
\* registry as it was when pubKey is not a registry key ("not found"), when
\* the entry is not an egg ("not in egg state") and when the entry is an egg
\* whose owner is empty ("has no owner"); in every other case it returns
\* nil and the entry is a pet.
C11_NamePetErrors ==
    [][(verdict'.op = "NamePet" /\ nEvents' = nEvents)
       => LET k == verdict'.target
              err == verdict'.msg
          IN /\ k \notin DOMAIN pets => (err = "not found" /\ pets' = pets)
             /\ (k \in DOMAIN pets /\ ~IsPetCreator(pets[k]))
                => (err = "not in egg state" /\ pets' = pets)
             /\ (k \in DOMAIN pets /\ IsPetCreator(pets[k]) /\ GetOwnerPubKey(pets[k]) = "")
                => (err = "has no owner" /\ pets' = pets)
             /\ (k \in DOMAIN pets /\ IsPetCreator(pets[k]) /\ GetOwnerPubKey(pets[k]) # "")
                => (err = "" /\ IsDefaultPet(pets'[k]))]_vars
\* NamePet has just refused to hatch an egg that has no owner.
C11_Witness ==
    /\ verdict.op = "NamePet" /\ verdict.msg = "has no owner"
    /\ verdict.target \in DOMAIN pets
    /\ IsPetCreator(pets[verdict.target])
    /\ GetOwnerPubKey(pets[verdict.target]) = ""

\* The goroutine whose step this is, as it is while it handles its message.
StepOf(t) == th'[t] # th[t]
Handling(t) == IF th[t].pc = "idle" THEN th'[t] ELSE th[t]
\* A gated name_pet whose name is missing or empty.
NoName(evt) ==
    /\ Gated(evt) /\ CommandName(evt) = "name_pet"
    /\ LET name == evt.Content.parameters.name
       IN name.t \in {"absent", "null"} \/ (name.t = "string" /\ name.s = "")
\* No entry is added, removed, replaced by another variant or renamed.
SameEntries ==
    /\ DOMAIN pets' = DOMAIN pets
    /\ \A k \in DOMAIN pets :
          /\ pets'[k].variant = pets[k].variant
          /\ pets'[k].Name = pets[k].Name
          /\ pets'[k].publicKey = pets[k].publicKey
          /\ pets'[k].privateKey = pets[k].privateKey
          /\ GetOwnerPubKey(pets'[k]) = GetOwnerPubKey(pets[k])

\* C12: no step of the handling of a name_pet command whose name is missing
\* or empty adds, replaces or renames a registry entry, with or without a
\* pet_id, and whether or not the sender owns the egg named.
C12_NoNameNoMutation ==
    [][\A t \in Threads :
          (StepOf(t) /\ Handling(t).hook = "store" /\ NoName(Handling(t).evt))
          => SameEntries]_vars
\* A name_pet with an empty name and the pet_id of the sender's own egg is
\* being handled.
C12_Witness ==
    \E t \in Threads :
        /\ th[t].pc # "idle" /\ th[t].hook = "store" /\ NoName(th[t].evt)
        /\ th[t].evt.Content.parameters.pet_id = Str("pk1")
        /\ "pk1" \in DOMAIN pets /\ IsPetCreator(pets["pk1"])
        /\ GetOwnerPubKey(pets["pk1"]) = th[t].evt.PubKey

\* The step of goroutine t is a step of the handling of an ordinary
\* message: the message goes to target resolution, a target is found unless
\* the registry is empty, and the target is fed (a pet gains 5 energy and 2
\* happiness up to 100 and its LastFed is set; an egg only logs).
FedAsNote(t) ==
    CASE th[t].pc = "idle" -> th'[t].pc = "findTargetPet" /\ pets' = pets
      [] th[t].pc = "findTargetPet" ->
            /\ pets' = pets
            /\ IF DOMAIN pets = {} THEN th'[t].pc = "idle"
               ELSE th'[t].pc = "pet_handleStoreEvent" /\ th'[t].target \in DOMAIN pets
      [] th[t].pc = "pet_handleStoreEvent" ->
            /\ th'[t].pc = "idle"
            /\ DOMAIN pets' = DOMAIN pets
            /\ \A j \in (DOMAIN pets) \ {th[t].target} : pets'[j] = pets[j]
            /\ LET p == pets[th[t].target]
               IN pets'[th[t].target] =
                     IF th[t].targetIsEgg THEN p
                     ELSE [p EXCEPT !.Energy = min(1000, p.Energy + 50),
                                    !.Happiness = min(1000, p.Happiness + 20),
                                    !.LastFed = now]
      [] OTHER -> FALSE
\* No entity's energy, happiness or time of last interaction changes.
SameNumbers ==
    \A k \in (DOMAIN pets) \cap (DOMAIN pets') :
        /\ pets'[k].Energy = pets[k].Energy
        /\ pets'[k].Happiness = pets[k].Happiness
        /\ pets'[k].LastFed = pets[k].LastFed

UnknownCommand(evt) ==
    /\ Gated(evt) /\ evt.Content.valid
    /\ evt.Content.name.t = "string"
    /\ evt.Content.name.s \notin {"create_egg", "name_pet"}
\* C14 as claimed: a gated message with an unknown command name is handled
\* as a command: the registry is unchanged and the message never goes to
\* target resolution and feeding.
C14_AsClaimed ==
    [][\A t \in Threads :
          (StepOf(t) /\ Handling(t).hook = "store" /\ UnknownCommand(Handling(t).evt))
          => (th'[t].pc \notin FeedingPcs /\ pets' = pets)]_vars
\* C14: a gated message with an unknown command name is logged and not
\* handled as a command: no registry entry is added, replaced or renamed,
\* and the message goes on to target resolution and feeding like an ordinary
\* message.
C14_UnknownFallsThrough ==
    [][\A t \in Threads :
          (StepOf(t) /\ Handling(t).hook = "store" /\ UnknownCommand(Handling(t).evt))
          => (FedAsNote(t) /\ SameEntries)]_vars
\* A feed_pet message has been resolved to a pet that it is about to feed.
C14_Witness ==
    \E t \in Threads :
        /\ th[t].hook = "store" /\ UnknownCommand(th[t].evt)
        /\ th[t].evt.Content.name.s = "feed_pet"
        /\ th[t].pc = "pet_handleStoreEvent" /\ ~th[t].targetIsEgg

\* C15: a gated message whose content is not JSON is not a command: no
\* registry entry is added, removed or replaced, and the message is resolved
\* to a target and handed to the target's handleStoreEvent as an ordinary
\* message is.
C15_MalformedIsFed ==
    [][\A t \in Threads :
          (/\ StepOf(t) /\ Handling(t).hook = "store"
           /\ Gated(Handling(t).evt) /\ ~Handling(t).evt.Content.valid)
          => (SameEntries /\ FedAsNote(t))]_vars
\* A gated message that is not JSON is about to feed the pet Rex.
C15_Witness ==
    \E t \in Threads :
        /\ th[t].hook = "store" /\ Gated(th[t].evt) /\ ~th[t].evt.Content.valid
        /\ th[t].pc = "pet_handleStoreEvent"
        /\ th[t].target \in DOMAIN pets
        /\ pets[th[t].target].Name = "Rex"

\* A gated name_pet with a name and without a pet_id.
NamesWithoutID(evt) ==
    /\ Gated(evt) /\ CommandName(evt) = "name_pet"
    /\ evt.Content.parameters.t = "object"
    /\ evt.Content.parameters.name.t = "string"
    /\ evt.Content.parameters.name.s # ""
    /\ evt.Content.parameters.pet_id.t \in {"absent", "null"}
\* C16: a step of the handling of a name_pet without pet_id from sender A
\* changes at most one registry entry, and that entry was an egg owned by A
\* and is a pet afterwards; when A owns no egg the handler gives up and the
\* registry is unchanged; the message is never fed to an entity.
C16_NoIdHatchesOwnEgg ==
    [][\A t \in Threads :
          (StepOf(t) /\ Handling(t).hook = "store" /\ NamesWithoutID(Handling(t).evt))
          => LET A == Handling(t).evt.PubKey
                 changed == {k \in DOMAIN pets : pets'[k] # pets[k]}
             IN /\ DOMAIN pets' = DOMAIN pets
                /\ Cardinality(changed) <= 1
                /\ \A k \in changed :
                      /\ IsPetCreator(pets[k]) /\ GetOwnerPubKey(pets[k]) = A
                      /\ IsDefaultPet(pets'[k])
                /\ (/\ th[t].pc = "FindEggsByOwner"
                    /\ ~\E k \in DOMAIN pets :
                          IsPetCreator(pets[k]) /\ GetOwnerPubKey(pets[k]) = A)
                   => (th'[t].pc = "idle" /\ pets' = pets)
                /\ th'[t].pc \notin FeedingPcs]_vars
\* Eggs of both owners exist and a name_pet without pet_id is about to hatch
\* the sender's.
C16_Witness ==
    \E t \in Threads :
        /\ th[t].pc = "NamePet_locked" /\ NamesWithoutID(th[t].evt)
        /\ th[t].target \in DOMAIN pets /\ IsPetCreator(pets[th[t].target])
        /\ GetOwnerPubKey(pets[th[t].target]) = th[t].evt.PubKey
        /\ \E j \in DOMAIN pets :
              IsPetCreator(pets[j]) /\ GetOwnerPubKey(pets[j]) # th[t].evt.PubKey

\* The step is a call of handleRejectEvent / of GetStateEmoji.
Rejecting == verdict'.op = "handleRejectEvent" /\ verdict' # verdict
Showing == verdict'.op = "GetStateEmoji" /\ verdict' # verdict
\* The positions of the "p" tags of a message that name a registry key.
Addressed(evt) ==
    {i \in 1..Len(evt.Tags) :
        /\ Len(evt.Tags[i]) >= 2 /\ evt.Tags[i][1] = "p"
        /\ \E k \in DOMAIN pets : evt.Tags[i][2] = k}

\* C17: the target that findTargetPet resolves is the entity named by the
\* first "p" tag that is a registry key; if there is none, an entity whose
\* owner is the sender; if there is none, a pet (not an egg); if there is
\* none, any entity; and it is none exactly when the registry is empty.
C17_TargetPriority ==
    [][Rejecting
       => LET evt == verdict'.evt
              target == verdict'.target
              owned == \E k \in DOMAIN pets : GetOwnerPubKey(pets[k]) = evt.PubKey
              anyPet == \E k \in DOMAIN pets : IsDefaultPet(pets[k])
          IN /\ target = "" <=> DOMAIN pets = {}
             /\ target # "" => target \in DOMAIN pets
             /\ Addressed(evt) # {}
                => \E i \in Addressed(evt) :
                      /\ \A j \in Addressed(evt) : i <= j
                      /\ target = evt.Tags[i][2]
             /\ (Addressed(evt) = {} /\ owned)
                => GetOwnerPubKey(pets[target]) = evt.PubKey
             /\ (Addressed(evt) = {} /\ ~owned /\ anyPet)
                => IsDefaultPet(pets[target])]_vars
\* The sender owns nothing, nobody is addressed, an egg and a pet of
\* another owner are there: the pet was taken.
C17_Witness ==
    /\ verdict.op = "handleRejectEvent"
    /\ Addressed(verdict.evt) = {}
    /\ \A k \in DOMAIN pets : GetOwnerPubKey(pets[k]) # verdict.evt.PubKey
    /\ \E k \in DOMAIN pets : IsPetCreator(pets[k])
    /\ verdict.target \in DOMAIN pets /\ IsDefaultPet(pets[verdict.target])

\* C18 as claimed: every registry key is the public key of the entity stored
\* under it, after any sequence of RegisterPet, CreatePet and NamePet.
C18_AsClaimed ==
    \A k \in DOMAIN pets : pets[k].publicKey = k

\* C19: handleRejectEvent rejects a message exactly when the target it
\* resolves is a pet with happiness < 50 and the content is longer than 250,
\* and then the reason is not empty; happiness 50, length 250, an egg as
\* target and an empty registry give accept.
C19_RejectPolicy ==
    [][Rejecting
       => LET target == verdict'.target
          IN /\ verdict'.reject
                <=> /\ target \in DOMAIN pets
                    /\ IsDefaultPet(pets[target])
                    /\ pets[target].Happiness < 500
                    /\ verdict'.evt.Content.len > 250
             /\ verdict'.reject => verdict'.msg # ""
             /\ ~verdict'.reject => verdict'.msg = ""]_vars
\* A message of length 251 was rejected by a pet of happiness 49.
C19_Witness ==
    /\ verdict.op = "handleRejectEvent" /\ verdict.reject
    /\ verdict.evt.Content.len = 251
    /\ pets[verdict.target].Happiness = 490

\* C20: the symbol shown is "egg" for an egg; for a pet it is exhausted when
\* energy < 30, hungry when 30 <= energy < 50, and with energy >= 50: sad
\* when happiness < 30, neutral when 30 <= happiness < 50, delighted when
\* both are >= 80, content otherwise; showing it changes nothing.
C20_StateEmoji ==
    [][Showing
       => LET p == pets[verdict'.target]
              e == p.Energy
              h == p.Happiness
              shown == verdict'.msg
          IN /\ pets' = pets
             /\ IsPetCreator(p) => shown = "egg"
             /\ IsDefaultPet(p)
                => /\ shown = "exhausted" <=> e < 300
                   /\ shown = "hungry" <=> (300 <= e /\ e < 500)
                   /\ shown = "sad" <=> (e >= 500 /\ h < 300)
                   /\ shown = "neutral" <=> (e >= 500 /\ 300 <= h /\ h < 500)
                   /\ shown = "delighted" <=> (e >= 800 /\ h >= 800)
                   /\ shown = "content"
                      <=> (e >= 500 /\ h >= 500 /\ ~(e >= 800 /\ h >= 800))]_vars
\* A pet that is both hungry and sad shows as hungry: the energy is looked
\* at first.
C20_Witness ==
    /\ verdict.op = "GetStateEmoji" /\ verdict.msg = "hungry"
    /\ pets[verdict.target].Happiness < 300
\* A number brought back into [0,100], in tenths.
Clamp(x) == IF x < 0 THEN 0 ELSE IF x > 1000 THEN 1000 ELSE x

\* C21: a decay step on a pet with elapsed time e since its last feeding
\* sets the energy to clamp(energy - 0.001*e) and changes the happiness, to
\* clamp(happiness - 0.002*e), only when the energy after the step is below
\* 30; it raises neither value and leaves lastInteraction alone. From
\* 100/100 with e = 100000 s the energy is exactly 0.
C21_DecayStep ==
    [][\A k \in DOMAIN pets :
          (UpdatePet(k) /\ IsDefaultPet(pets[k])) =>
              LET p == pets[k]
                  q == pets'[k]
                  e == now - p.LastFed
              IN /\ q.Energy = Clamp(p.Energy - e)
                 /\ q.Happiness = IF q.Energy < 300 THEN Clamp(p.Happiness - 2 * e)
                                   ELSE p.Happiness
                 /\ q.Energy <= p.Energy
                 /\ q.Happiness <= p.Happiness
                 /\ q.LastFed = p.LastFed
                 /\ (p.Energy = 1000 /\ p.Happiness = 1000 /\ e = 1000) => q.Energy = 0]_vars
\* A pet of energy 29 and happiness 100, never fed, has decayed for 20000 s:
\* its energy is 9 and, being tired, its happiness went down to 60.
C21_Witness ==
    /\ "pk1" \in DOMAIN pets
    /\ IsDefaultPet(pets["pk1"])
    /\ now = 200
    /\ pets["pk1"].LastFed = 0
    /\ pets["pk1"].Energy = 90
    /\ pets["pk1"].Happiness = 600
\* The pet q is the pet p after a whole feeding at time clock.
WholeFeed(p, q, clock) ==
    /\ q.Energy >= p.Energy
    /\ q.Happiness >= p.Happiness
    /\ (p.Energy < 1000 \/ p.Happiness < 1000) =>
           (q.Energy > p.Energy \/ q.Happiness > p.Happiness)
    /\ q.LastFed = clock

\* C22: feeding a pet never lowers its energy or its happiness, raises at
\* least one of them unless both are 100 already, and sets lastInteraction
\* to the current time; the three writes are one step, so that no state
\* shows a feeding half-applied: a step that moves lastInteraction is a
\* whole feeding.
C22_FeedIsWhole ==
    [][/\ \A t \in Threads :
              (Feed(t) /\ ~th[t].targetIsEgg) =>
                  WholeFeed(pets[th[t].target], pets'[th[t].target], now)
       /\ \A k \in DOMAIN pets :
              (IsDefaultPet(pets[k]) /\ pets'[k].LastFed # pets[k].LastFed) =>
                  WholeFeed(pets[k], pets'[k], now)]_vars
\* A pet of energy 29 and happiness 30 was fed after 20000 s: it is at
\* 34 and 32 and its lastInteraction is the time of the feeding.
C22_Witness ==
    /\ "pk1" \in DOMAIN pets
    /\ IsDefaultPet(pets["pk1"])
    /\ now = 200
    /\ pets["pk1"].LastFed = 200
    /\ pets["pk1"].Energy = 340
    /\ pets["pk1"].Happiness = 320

\* C23: for every identity, lastInteraction never moves backwards, hatching
\* included, and it changes only in the step that feeds the entity: decay,
\* query shaping, deletion notifications, creation of other eggs and
\* hatching leave it as it was.
C23_LastFedOnlyByFeeding ==
    [][\A k \in DOMAIN pets :
          /\ k \in DOMAIN pets'
          /\ pets'[k].LastFed >= pets[k].LastFed
          /\ pets'[k].LastFed # pets[k].LastFed =>
                 \E t \in Threads :
                     Feed(t) /\ th[t].target = k /\ ~th[t].targetIsEgg]_vars
\* An identity laid as an egg at time 0 has hatched and has decayed to
\* energy 20 after 80000 s: its lastInteraction is still that of its
\* creation.
C23_Witness ==
    /\ now = 800
    /\ \E k \in DOMAIN pets :
          /\ IsDefaultPet(pets[k])
          /\ LogOf(namePetLog, k).ok = 1
          /\ pets[k].Energy = 200
          /\ pets[k].LastFed = 0
\* C24: query shaping by one pet sets the result-count ceiling to 10 if and
\* only if the pet's energy is below 30 and the incoming ceiling is unset
\* (0); a ceiling already set is kept and no other field of the filter
\* changes; every consultation lowers the pet's energy by 0.1, floored at 0,
\* and leaves its happiness (and an egg altogether) as it was.
C24_QueryShaping ==
    [][\A f \in Filters :
          HandleCountEvents(f) =>
              LET p == pets["pk1"]
                  q == pets'["pk1"]
                  g == verdict'.filter
              IN IF IsDefaultPet(p)
                 THEN /\ (g.Limit = 10 /\ f.Limit # 10) <=> (p.Energy < 300 /\ f.Limit = 0)
                      /\ f.Limit # 0 => g.Limit = f.Limit
                      /\ g.Limit \in {f.Limit, 10}
                      /\ g.Kinds = f.Kinds
                      /\ q.Energy = Clamp(p.Energy - 1)
                      /\ q.Happiness = p.Happiness
                      /\ q.LastFed = p.LastFed
                 ELSE g = f /\ q = p]_vars
\* A tired pet (energy 29) was consulted with an unset ceiling: the filter
\* came back with ceiling 10 and the pet is at energy 28.9.
C24_Witness ==
    /\ verdict.op = "handleCountEvents"
    /\ verdict.filter = Filter(10, <<NoteKind>>)
    /\ IsDefaultPet(pets["pk1"])
    /\ pets["pk1"].Energy = 289
    /\ now = 0

\* C25: while an entity is an egg its numbers never change: whatever decay
\* ticks, messages resolved to it, deletion notifications and query shapings
\* happen, its energy and happiness are the 100 and 100 of its creation, so
\* that every hatch starts a pet at 100/100.
C25_EggNumbersFixed ==
    [][\A k \in DOMAIN pets' :
          /\ IsPetCreator(pets'[k]) =>
                 pets'[k].Energy = 1000 /\ pets'[k].Happiness = 1000
          /\ (k \in DOMAIN pets /\ IsPetCreator(pets[k]) /\ IsDefaultPet(pets'[k])) =>
                 pets'[k].Energy = 1000 /\ pets'[k].Happiness = 1000]_vars
\* 80000 s after the first egg was laid, a message resolved to an egg is
\* about to be handed to it.
C25_Witness ==
    /\ now = 800
    /\ \E t \in Threads :
          /\ th[t].pc = "pet_handleStoreEvent"
          /\ th[t].targetIsEgg
          /\ IsPetCreator(pets[th[t].target])
          /\ pets[th[t].target].LastFed = 0

\* A status message is being handled by goroutine t.
StatusMessage(t) == th[t].pc # "idle" /\ th[t].evt.Kind = 30078

\* C26: the status loop never publishes a status message for an egg: a tick
\* collects only entries that are pets at that moment, the snapshot changes
\* at ticks only, and every message handed to the publish hook is signed by
\* a pet of the snapshot, also when eggs are laid or hatch between the
\* snapshot and the publication.
C26_NoStatusForEggs ==
    [][/\ StatusTick =>
              \A k \in status'.snap : k \in DOMAIN pets /\ IsDefaultPet(pets[k])
       /\ status'.snap # status.snap => StatusTick
       /\ \A t \in Threads, k \in DOMAIN pets, saved \in BOOLEAN :
              StatusPublish(t, k, saved) =>
                  /\ k \in status.snap
                  /\ IsDefaultPet(pets[k])
                  /\ saved => th'[t].evt.Kind = 30078 /\ th'[t].evt.PubKey = k
       /\ \A t \in Threads :
              (th'[t].pc # "idle" /\ th'[t].evt.Kind = 30078) =>
                  /\ th'[t].evt.PubKey \in DOMAIN pets'
                  /\ IsDefaultPet(pets'[th'[t].evt.PubKey])]_vars
\* The status message of a pet of the snapshot is being handled while
\* another identity, an egg when the tick looked, has hatched since.
C26_Witness ==
    /\ \E t \in Threads : StatusMessage(t) /\ th[t].evt.PubKey \in status.snap
    /\ \E k \in DOMAIN pets : IsDefaultPet(pets[k]) /\ k \notin status.snap
    /\ verdict.op = "NamePet" /\ verdict.msg = "" /\ verdict.target \notin status.snap

\* C27: on each tick a publish is attempted once for every pet of the
\* tick's snapshot: while the loop publishes, the pets still to do have had
\* no attempt and the others exactly one, whether it failed or not; a
\* failure does not end the tick, which always comes to its end with one
\* attempt for every pet of the snapshot, the loop waiting for its next tick.
C27_OneAttemptEach ==
    /\ [](status.pc = "publishing" =>
              /\ status.todo # {}
              /\ \A k \in status.snap :
                     status.attempts[k] = IF k \in status.todo THEN 0 ELSE 1)
    /\ [](status.pc = "waiting" => \A k \in status.snap : status.attempts[k] = 1)
    /\ [](status.failed \subseteq status.snap \ status.todo)
    /\ (status.pc = "publishing" ~> status.pc = "waiting")
\* A tick with two pets in its snapshot has ended: the publish failed for
\* both, so the second was attempted after the first had failed.
C27_Witness ==
    /\ status.pc = "waiting"
    /\ Cardinality(status.snap) = 2
    /\ status.failed = status.snap
    /\ \A k \in status.snap : status.attempts[k] = 1

\* C28 (as claimed): a publish attempted before a publish hook has been
\* wired up, be it the metadata of a new egg, the metadata of a hatched pet
\* or the status of a pet on a tick, is not fatal: no step taken while the
\* hook is unset ends the process.
C28_AsClaimed == [][~publishEventHook => ~crashed']_vars

\* C30 (as claimed): every read of the registry map is made under the
\* registry lock, so that no read runs while createEgg or namePet is inside
\* its critical section: neither the target resolution, nor the search of
\* the sender's eggs, nor the pet_id lookup of a name_pet command.
C30_AsClaimed ==
    [][\A t \in Threads :
          (FindTarget(t) \/ FindEggs(t) \/ \E race \in BOOLEAN : Lookup(t, race)) =>
              mutex = 0]_vars

\* The goroutine t holds the lock, for reading or for writing.
Holds(t, lock) == t \in locks[lock].readers \/ locks[lock].writer = t
\* The next operation of goroutine t asks for the lock.
Wants(t, lock) ==
    /\ locks.script[t] # <<>>
    /\ locks.script[t][1].lock = lock
    /\ locks.script[t][1].op \in {"RLock", "Lock"}

\* C29: no goroutine ever asks for the registry lock while it holds an
\* entity lock, and the goroutines never wait for each other's locks for
\* ever: whenever some goroutine is inside a handler, at least one of them
\* can make its next lock operation.
C29_LockOrder ==
    /\ \A t \in Threads : Wants(t, "reg") => ~Holds(t, "pet")
    /\ (\E t \in Threads : locks.script[t] # <<>>) =>
           \E t \in Threads : CanLockStep(locks, t)
\* A query holds the registry lock for reading and the pet's lock for
\* writing while a command waits for the registry lock to write.
C29_Witness ==
    \E t, u \in Threads :
        /\ t \in locks.reg.readers
        /\ locks.pet.writer = t
        /\ u \in locks.reg.waiting

\* C40 (as claimed): a deletion notification raises a pet's energy only if
\* the energy is below 50 at the moment the increase is applied, whatever
\* feedings, decay ticks and query shapings of the same pet run meanwhile.
C40_AsClaimed ==
    [][\A t \in Threads :
          (DeleteWrite(t) /\ pets'[th[t].target].Energy # pets[th[t].target].Energy) =>
              pets[th[t].target].Energy < 500]_vars

\* C36: the totem is told of a message only after the database accepted
\* it: a hook whose save or delete failed returns the error, starts no
\* handler and changes neither the registry nor any entity, and a handler
\* only ever starts in a step in which a save or a delete went through.
C36_NotifiedAfterSave ==
    [][/\ \A evt \in StoreEvents \cup DeleteEvents :
              (HandleStoreEvent(1, evt, FALSE) \/ HandleDeleteEvent(1, evt, FALSE)) =>
                  /\ verdict'.msg # ""
                  /\ th' = th
                  /\ pets' = pets /\ tasks' = tasks /\ namePetLog' = namePetLog
       /\ \A t \in Threads :
              (th[t].pc = "idle" /\ th'[t].pc # "idle") =>
                  \/ verdict'.op \in {"handleStoreEvent", "handleDeleteEvent"}
                     /\ verdict'.msg = "" /\ nEvents' = nEvents + 1
                  \/ \E task \in tasks : PublishMetadata(t, task, TRUE)]_vars
\* With an egg in the registry, a relay hook has just returned the error
\* of the database, and no handler is running.
C36_Witness ==
    /\ verdict.msg = "database error"
    /\ \E k \in DOMAIN pets : IsPetCreator(pets[k])
    /\ \A t \in Threads : th[t].pc = "idle"

\* The message goroutine t handles was published by an entity of the
\* registry: its metadata or its status.
PublishedByEntity(t) ==
    th[t].evt.Kind \in {0, 30078} /\ th[t].evt.PubKey \in DOMAIN pets

\* C35 (as claimed): a message an entity publishes is not dispatched back
\* as a feeding: no feeding that changes the energy, the happiness or the
\* lastInteraction of an entity is the handling of a published message.
C35_AsClaimed ==
    [][\A t \in Threads : (Feed(t) /\ PublishedByEntity(t)) => pets' = pets]_vars

\* The relay has stored two messages only, a create_egg of an author who
\* owns no egg and then a name_pet without pet_id of the same author
\* (the second goroutine slot is taken while the first is busy), and the
\* egg has not been laid yet.
CreateThenNamePending ==
    /\ nEvents = 2
    /\ pets = <<>>
    /\ th[1].hook = "store" /\ Gated(th[1].evt) /\ CommandName(th[1].evt) = "create_egg"
    /\ th[1].pc \in {"CreatePet", "CreatePet_locked"}
    /\ th[2].hook = "store" /\ NamesWithoutID(th[2].evt)
    /\ th[2].pc = "FindEggsByOwner"
    /\ th[2].evt.PubKey = th[1].evt.PubKey

\* C37 (as claimed): commands of one author take effect in the order the
\* relay stored them: the name_pet stored after the author's create_egg
\* does not look for the author's eggs before the egg is laid (it would
\* find none and end without hatching anything).
C37_AsClaimed == [][CreateThenNamePending => ~FindEggs(2)]_vars

\* A message without "p" tags written by an owner, as findTargetPet sees it.
UntaggedFrom(owner) == [PubKey |-> owner, Tags |-> <<>>]

\* C39: the owner of an entity is the author of the create_egg message that
\* made it and never changes: no entry leaves the registry, every step
\* leaves the owner of every entry as it was, a new entry is an egg laid
\* by a create_egg command and owned by its author, and the pet a hatching
\* puts in the egg's place is among the entities findTargetPet selects by
\* ownership for an untagged message of that owner.
C39_OwnerFixed ==
    [][/\ DOMAIN pets \subseteq DOMAIN pets'
       /\ \A k \in DOMAIN pets : GetOwnerPubKey(pets'[k]) = GetOwnerPubKey(pets[k])
       /\ \A k \in DOMAIN pets' \ DOMAIN pets :
              \E t \in Threads :
                  /\ CreatePetLocked(t)
                  /\ CommandName(th[t].evt) = "create_egg"
                  /\ IsPetCreator(pets'[k])
                  /\ GetOwnerPubKey(pets'[k]) = th[t].evt.PubKey
       /\ \A k \in DOMAIN pets :
              (IsPetCreator(pets[k]) /\ ~IsPetCreator(pets'[k])) =>
                  /\ GetOwnerPubKey(pets'[k]) # ""
                  /\ k \in FindTargetPet(pets', UntaggedFrom(GetOwnerPubKey(pets[k])))
                  /\ \A j \in FindTargetPet(pets', UntaggedFrom(GetOwnerPubKey(pets[k]))) :
                         GetOwnerPubKey(pets'[j]) = GetOwnerPubKey(pets[k])]_vars

\* A pet hatched from an egg has been selected by findTargetPet for an
\* untagged message of its owner.
C39_Witness ==
    \E t \in Threads : \E k \in DOMAIN pets :
        /\ th[t].pc = "pet_handleStoreEvent"
        /\ th[t].target = k
        /\ ~th[t].targetIsEgg
        /\ TaggedPets(pets, th[t].evt.Tags) = {}
        /\ IsDefaultPet(pets[k])
        /\ LogOf(namePetLog, k).ok = 1
        /\ GetOwnerPubKey(pets[k]) = th[t].evt.PubKey

\* The metadata goroutines started and not yet run for the identity k.
TasksOf(set, k) == {task \in set : task.publicKey = k}

\* C33: laying an egg starts exactly one metadata publish, for the new
\* identity; a NamePet that returns nil starts exactly one, for the pet
\* that replaced the egg, and one that returns an error starts none;
\* nothing else starts one; and createEgg and namePet return in the step
\* that starts the goroutine, which is still to run.  With hatching one-way
\* this gives each identity one publish at creation and at most one at
\* hatching.
C33_MetadataStarts ==
    [][/\ \A t \in Threads :
              CreatePetLocked(t) =>
                  \E k \in DOMAIN pets' \ DOMAIN pets :
                      /\ tasks' \ tasks = {MetadataTask(pets'[k])}
                      /\ IsPetCreator(pets'[k])
                      /\ tasks \subseteq tasks'
                      /\ th'[t].pc = "idle"
       /\ \A t \in Threads :
              NamePetLocked(t) =>
                  /\ th'[t].pc = "idle"
                  /\ tasks \subseteq tasks'
                  /\ IF LogOf(namePetLog', th[t].target).ok = LogOf(namePetLog, th[t].target).ok + 1
                     THEN /\ IsPetCreator(pets[th[t].target])
                          /\ ~IsPetCreator(pets'[th[t].target])
                          /\ tasks' \ tasks = {MetadataTask(pets'[th[t].target])}
                     ELSE /\ tasks' = tasks
                          /\ pets' = pets
       /\ (tasks' \ tasks # {}) =>
              \E t \in Threads : CreatePetLocked(t) \/ NamePetLocked(t)
       /\ \A k \in DOMAIN pets' :
              /\ Cardinality(TasksOf(tasks', k)) <= 2
              /\ Cardinality({task \in TasksOf(tasks', k) : task.egg}) <= 1
              /\ Cardinality({task \in TasksOf(tasks', k) : ~task.egg}) <= 1]_vars

\* Two name_pet commands raced for one egg: one NamePet returned nil, the
\* other an error, both handlers have returned, and the identity has its two
\* metadata goroutines (of the egg and of the pet) still to run.
C33_Witness ==
    \E k \in DOMAIN pets :
        /\ LogOf(namePetLog, k).ok = 1
        /\ LogOf(namePetLog, k).err = 1
        /\ Cardinality(TasksOf(tasks, k)) = 2
        /\ \A t \in Threads : th[t].pc = "idle"

\* The NamePet of goroutine t returned nil: its target was hatched.
Hatches(t) ==
    /\ NamePetLocked(t)
    /\ IsPetCreator(pets[th[t].target])
    /\ ~IsPetCreator(pets'[th[t].target])

\* C34 (as claimed): time spent as an egg costs no energy: for a pet hatched
\* now (h), the first decay tick, at whatever time t >= h it comes, lowers
\* the energy by no more than 0.001 a second of t - h (one tenth of a point
\* for each unit of the clock).
C34_AsClaimed ==
    [][\A t \in Threads :
          Hatches(t) =>
              \A clock \in now..MaxNow :
                  pets'[th[t].target].Energy - Update(pets'[th[t].target], clock).Energy
                      <= clock - now]_vars

\* Some pet of the registry is tired when the filter reaches it.
SomeTired(reg) == \E k \in DOMAIN reg : IsDefaultPet(reg[k]) /\ reg[k].Energy < 300

C38_AsClaimed ==
    [][\A t \in Threads, k \in DOMAIN pets :
          StatusPublish(t, k, TRUE) =>
              th'[t].evt = StatusEvent(status.held[1], GetStateEmoji(status.held[1]))]_vars

\* The next operation of goroutine t reads or writes the entity's state.
Accesses(t, kind) ==
    /\ locks.script[t] # <<>>
    /\ locks.script[t][1] = LockOp(kind, "pet")

\* C31 (as claimed): every read and every write of an entity's state is made
\* with the entity's own lock held (for writing, by a write), the reads of
\* the egg's state in hatching and of the name for a metadata message
\* included, so that no goroutine reads the state while another writes it.
C31_AsClaimed ==
    /\ \A t \in Threads : Accesses(t, "Read") => Holds(t, "pet")
    /\ \A t \in Threads : Accesses(t, "Write") => locks.pet.writer = t
    /\ \A t, u \in Threads : ~(Accesses(t, "Read") /\ Accesses(u, "Write"))

====
